---------------------------- MODULE Spec2Model ----------------------------
(***************************************************************************)
(* Verification model of the agent tooling and protocol bridges of         *)
(* bevy_ai_editor.                                                         *)
(*                                                                         *)
(*   SpecDap       the DAP bridge (crates/debugger_mcp_server/src/main.rs):*)
(*                 tool calls serialised by the session-manager mutex, the *)
(*                 reader task, the adapter as a nondeterministic peer.    *)
(*   SpecDapFair   SpecDap with the fairness the tokio runtime gives the   *)
(*                 timers and ready futures of a caller.                   *)
(*   SpecLock      the file-path lock registry (tools/locks.rs) used by    *)
(*                 the file tools.                                         *)
(*   SpecEdit      multi_edit (tools/multiedit.rs) on a small file.        *)
(*   SpecLsp       the LSP client (tools/lsp.rs): one tool call at a time  *)
(*                 under the session mutex, the reader thread, and the     *)
(*                 language server as a nondeterministic peer.             *)
(*   SpecBrp       the request ids of the BRP client                       *)
(*                 (crates/bevy_bridge_core/src/client.rs) and its clones. *)
(*   SpecRing      the recent-output ring of the DAP reader task.          *)
(*   SpecLlm       the retry loop of the streaming chat completion         *)
(*                 (apps/axiom/src/llm/gemini.rs).                         *)
(*   SpecLspFair   SpecLsp with the threads of the client scheduled.       *)
(*   SpecSse       the SSE codec SseStream (apps/axiom/src/llm/gemini.rs)  *)
(*                 over a response body cut into chunks.                   *)
(*   SpecBatch     batch_run (tools/batch.rs).                             *)
(*   SpecEditFile  edit_file (tools/mod.rs) on a small file.               *)
(*   SpecShell     run_command (tools/shell.rs): cd and the other commands *)
(*                 on a small disk.                                        *)
(*   SpecClear     clear (crates/bevy_bridge_core/src/ops/clear.rs).       *)
(*   SpecLspInit   the creation of the LSP session by concurrent first     *)
(*                 calls (get_or_init_session, tools/lsp.rs).              *)
(*   SpecRmw       write_file, edit_file and multi_edit reading and        *)
(*                 writing a file under the path lock.                     *)
(*   SpecFrames    the Content-Length frame readers of the DAP bridge and  *)
(*                 of the LSP client on one byte stream.                   *)
(*   SpecMx        the mutexes shared by the DAP reader task and a caller  *)
(*                 sending a request and awaiting its response.            *)
(*   SpecSnap      the evaluate fallback of bevy_debug_snapshot and the    *)
(*                 output events it takes an address from.                 *)
(***************************************************************************)
EXTENDS Integers, Sequences, FiniteSets, TLC

(***************************************************************************)
(* Bounds of the model.                                                    *)
(***************************************************************************)
\* The highest seq under which a tool call of a DAP session other than the
\* closing detach may start is MaxSeq - 1 (next_seq is capped in the guards).
MaxSeq == 5
\* Stopped events the adapter sends in one session.
MaxStops == 2
\* Adapter processes that may be left running without an owner.
MaxOrphans == 1
\* Longest file content and longest edit list given to multi_edit.
MaxLen == 3
MaxEdits == 2
\* Requests the LSP session may issue, and messages it may write in all.
MaxLspId == 3
MaxLspOut == 5
\* Ids the BRP client and its clones may hand out.
MaxBrpId == 4
\* Output events with an output string that the adapter sends.
MaxOutputs == 1034
\* Bytes the HTTP response body delivers to one SSE stream.
MaxSseLen == 6
\* Bytes in one chunk of the response body.
MaxSseChunk == 2
\* Transport errors the response body reports to one SSE stream.
MaxSseErrs == 1
\* Items in the tools array of one batch_run call.
MaxBatch == 3
\* Entities in the answer to the world.query of one clear.
MaxEntities == 3
MaxFrameLen == 4        \* pieces of a stream the frame readers are given
MaxSnapOutputs == 4     \* output events read while snapshots are taken

VARIABLES
    \* ---- DAP: SessionManager (main.rs 368-386) and its tokio Mutex
    mgrLock,                \* holder of DebuggerMcpServer.session's mutex
    mstate,                 \* SessionManager.state
    stored,                 \* SessionManager.session.is_some()
    \* ---- DAP: the DapSession object (main.rs 213-227)
    sessAlive,              \* a DapSession object exists (local or stored)
    next_seq,
    pending,                \* request seq -> oneshot sender (0: no entry)
    chan,                   \* the oneshot channels, named by creating seq
    stopSlot,               \* last_stopped_event
    stopped_seq,
    initialized_seen,
    configuration_done_sent,
    child,                  \* the adapter process of the session
    reader,                 \* the reader task of the session
    orphanChildren,         \* adapter processes running with no owner
    orphanReaders,          \* reader tasks running with no owner
    \* ---- DAP: per tool call
    pc, op, cur, attSeq, before, aw, resp, ret, waitReg,
    \* ---- file tools: the lock registry (locks.rs) and its borrowers
    locked,                 \* LOCKED_FILES: the set of registered keys
    fileExists,             \* which files exist on disk
    lpc, lraw, lkey, ltool, lexit,
    \* ---- multi_edit (multiedit.rs) on the file "a.txt"
    eFile,                  \* content of the file on disk
    eOrig,                  \* its content when the call was made
    eEdits,                 \* args["edits"]
    eWrites,                \* the contents handed to fs::write, in order
    eResult,                \* what execute returned
    \* ---- LSP client (lsp.rs): LspSession, SharedLspState, the tool call
    lspChild,               \* the rust-analyzer process
    lspReader,              \* the reader thread
    lsp_request_id,         \* LspSession.request_id
    lspInitialized,         \* LspSession.initialized
    responses,              \* SharedLspState.responses: id -> what is stored
    lspOut,                 \* ids written to the server's stdin, in order
                            \* (0: a notification, which has no id)
    lspPc, lspWait, lspRet, \* the tool call: position, awaited id, result
    \* ---- BRP client (client.rs): the id counter and the send_rpc calls
    brpCell,                \* counter cell -> the value fetch_add returns next
    brpPc, brpId, brpRet,   \* per task: position, id obtained, last outcome
    brpLog,                 \* the ids handed out, in the order of fetch_add
    \* ---- DAP reader task: the output events kept for the console tool
    recent_output_events,   \* the seqs of the ring's entries, front first
    output_event_seq,       \* the seq the next output event gets
    \* ---- chat_completion_stream (gemini.rs): one call
    llmPc,                  \* idle, sending (a POST is in flight), done
    retry_count, base_delay,
    llmOutcomes,            \* how the attempts made so far ended, in order
    llmSleeps,              \* the delays slept so far, in seconds
    llmRet,                 \* what the call returned
    \* ---- SseStream (gemini.rs): one response body and its consumer
    sseIn,                  \* the bytes the body has yielded so far
    sseBuf,                 \* SseStream.buffer
    sseOut,                 \* the items poll_next returned, in order
    sseErrs,                \* transport errors the body has reported
    sseEnded,               \* poll_next has returned None
    \* ---- batch_run (batch.rs): one call
    batPc,                  \* idle, done
    batItems,               \* args["tools"], each item by its kind
    batCalls,               \* the items whose tool was executed, in order
    batRet,                 \* what execute returned
    \* ---- edit_file (tools/mod.rs) on the file "a.txt"
    efArgs,                 \* the arguments of the call made
    \* ---- run_command (shell.rs): SHELL_STATE and the disk
    shCwd,                  \* ShellState.cwd, as its components from the root
    shEnv,                  \* the keys added to ShellState.env_vars
    shFs,                   \* what each path is on disk
    shLast,                 \* the last call: its command and its result
    \* ---- clear (bevy_bridge_core ops/clear.rs): one call
    clPc,                   \* idle, done
    clQuery,                \* the target and the answer to world.query
    clDespawns,             \* the entries a despawn was sent for, in order
    clRet,                  \* what clear returned
    \* ---- get_or_init_session (lsp.rs) called from several threads
    lsiCell,                \* LSP_SESSION holds a session
    lsiHolder,              \* the thread holding the session's mutex
    lsiPc,                  \* per thread: its position in the call
    lsiSpawned,             \* rust-analyzer processes spawned so far
    lsiReaders,             \* reader threads spawned so far
    \* ---- the file tools' read-modify-write under the path lock
    rwContent,              \* the content of each file on disk
    rwRead,                 \* per thread: the content its tool has read
    \* ---- the two frame readers on a byte stream
    frDapIn,                \* what the DAP reader task has not read yet
    frDapPc,                \* the DAP reader loop: "run", "stopped"
    frDapLast,              \* what its last read_dap_message gave
    frLspIn,                \* what the LSP reader thread has not read yet
    frLspPc,                \* the LSP reader loop: "run", "stopped"
    frLspLast,              \* what its last read_message gave
    \* ---- the mutexes shared by the DAP reader task and a caller
    mxOwner,                \* per mutex: who holds it
    mxOrder,                \* pairs <<held, acquired>> seen so far
    mxReaderPc,             \* where the reader task is
    mxMsg,                  \* the kind of message the reader is handling
    mxCallerPc,             \* where the caller is
    mxEntry,                \* the caller's entry of the pending table
    \* ---- the evaluate fallback of bevy_debug_snapshot
    snAddr,                 \* the seqs of the outputs that hold a hex address
    snPc,                   \* where the fallback is
    snStart,                \* output_start_seq
    snAtCapture,            \* the seqs in the ring when it was captured
    snRet                   \* the address the fallback resolved, and its origin

dapVars == <<mgrLock, mstate, stored, sessAlive, next_seq, pending, chan,
             stopSlot, stopped_seq, initialized_seen, configuration_done_sent,
             child, reader, orphanChildren, orphanReaders,
             pc, op, cur, attSeq, before, aw, resp, ret, waitReg>>

lockVars == <<locked, fileExists, lpc, lraw, lkey, ltool, lexit>>
editVars == <<eFile, eOrig, eEdits, eWrites, eResult>>
lspVars == <<lspChild, lspReader, lsp_request_id, lspInitialized, responses,
             lspOut, lspPc, lspWait, lspRet>>
brpVars == <<brpCell, brpPc, brpId, brpRet, brpLog>>
ringVars == <<recent_output_events, output_event_seq>>
llmVars == <<llmPc, retry_count, base_delay, llmOutcomes, llmSleeps, llmRet>>
bridgeVars == <<lspVars, brpVars, ringVars, llmVars>>
sseVars == <<sseIn, sseBuf, sseOut, sseErrs, sseEnded>>
batchVars == <<batPc, batItems, batCalls, batRet>>
shellVars == <<shCwd, shEnv, shFs, shLast>>
clearVars == <<clPc, clQuery, clDespawns, clRet>>
toolVars == <<sseVars, batchVars, efArgs, shellVars, clearVars>>
lsiVars == <<lsiCell, lsiHolder, lsiPc, lsiSpawned, lsiReaders>>
rmwVars == <<rwContent, rwRead>>
frameVars == <<frDapIn, frDapPc, frDapLast, frLspIn, frLspPc, frLspLast>>
mxVars == <<mxOwner, mxOrder, mxReaderPc, mxMsg, mxCallerPc, mxEntry>>
snapVars == <<snAddr, snPc, snStart, snAtCapture, snRet>>
extVars == <<lsiVars, rmwVars, frameVars, mxVars, snapVars>>
vars == <<dapVars, lockVars, editVars, bridgeVars, toolVars, extVars>>

(***************************************************************************)
(* File-path lock registry (apps/Axiom/src/tools/locks.rs) and the file    *)
(* tools that borrow it (tools/mod.rs, tools/multiedit.rs)                 *)
(***************************************************************************)
Threads == {"t1", "t2", "t3"}
Files == {"a", "b"}
\* Spellings a caller may pass as the path argument; the working directory
\* is /w.
RawPaths == {"a.txt", "./a.txt", "/w/a.txt", "b.txt"}
FileOf == [r \in RawPaths |-> IF r = "b.txt" THEN "b" ELSE "a"]
LockTools == {"write_file", "edit_file", "multi_edit"}
ExitKinds == {"ok", "error", "panic"}
NoPath == "-"

\* Path::canonicalize of an existing file: its absolute, resolved path.
RealPath == [f \in Files |-> IF f = "a" THEN "/w/a.txt" ELSE "/w/b.txt"]
\* Path::is_absolute.
IsAbsolute(raw) == raw = "/w/a.txt"
\* current_dir().join(path): the spelling is appended as it is.
CwdJoin(raw) ==
    CASE raw = "a.txt" -> "/w/a.txt"
      [] raw = "./a.txt" -> "/w/./a.txt"
      [] raw = "b.txt" -> "/w/b.txt"
      [] OTHER -> raw

\* canonical_path of acquire_lock: the registry key of a spelling.
CanonicalPath(raw, exists) ==
    IF exists[FileOf[raw]] THEN RealPath[FileOf[raw]]
    ELSE IF IsAbsolute(raw) THEN raw
    ELSE CwdJoin(raw)

\* Mutant of AcquireAdmits: the key is inserted without looking.
AcquireAdmitsAlways(set, key) == TRUE

\* !set.contains(&canonical_path): the loop iteration takes the lock.
AcquireAdmits(set, key) == key \notin set

\* Mutant of GuardDrop: the entry is removed by the return paths only, not
\* by the unwinding of a panic.
GuardDropOnReturn(set, key, kind) == IF kind = "panic" THEN set ELSE set \ {key}

\* Drop for FileLockGuard, run on every way out of the owning scope.
GuardDrop(set, key, kind) == set \ {key}

LockIdle ==
    /\ locked = {}
    /\ lpc = [t \in Threads |-> "idle"]
    /\ lraw = [t \in Threads |-> NoPath]
    /\ lkey = [t \in Threads |-> NoPath]
    /\ ltool = [t \in Threads |-> "none"]
    /\ lexit = [t \in Threads |-> "none"]

\* No call in progress and no file yet.
InitLock0 ==
    /\ LockIdle
    /\ fileExists = [f \in Files |-> FALSE]

InitLock ==
    /\ LockIdle
    /\ fileExists \in [Files -> BOOLEAN]

\* A tool's execute calls acquire_lock(path): the key is computed once,
\* before the loop.
LockCall(t) ==
    /\ lpc[t] = "idle"
    /\ \E raw \in RawPaths, tool \in LockTools :
         /\ lraw' = [lraw EXCEPT ![t] = raw]
         /\ ltool' = [ltool EXCEPT ![t] = tool]
         /\ lkey' = [lkey EXCEPT ![t] = CanonicalPath(raw, fileExists)]
    /\ lpc' = [lpc EXCEPT ![t] = "spin"]
    /\ lexit' = [lexit EXCEPT ![t] = "none"]
    /\ UNCHANGED <<locked, fileExists>>

\* One iteration of the loop under the registry mutex that finds the key
\* free; an iteration that finds it taken sleeps and changes nothing.
LockAcquire(t) ==
    /\ lpc[t] = "spin"
    /\ AcquireAdmits(locked, lkey[t])
    /\ locked' = locked \cup {lkey[t]}
    /\ lpc' = [lpc EXCEPT ![t] = "held"]
    /\ UNCHANGED <<fileExists, lraw, lkey, ltool, lexit>>

\* The rest of execute, up to the end of the guard's scope: the tool
\* returns Ok, returns an error (read failed, old_string not found, write
\* failed) or panics; the guard is dropped on each of them. Only write_file
\* creates a missing file; the edit tools cannot succeed on one.
ToolExit(t) ==
    /\ lpc[t] = "held"
    /\ \E kind \in ExitKinds :
         /\ kind = "ok" => (ltool[t] = "write_file" \/ fileExists[FileOf[lraw[t]]])
         /\ fileExists' = IF kind = "ok" /\ ltool[t] = "write_file"
                          THEN [fileExists EXCEPT ![FileOf[lraw[t]]] = TRUE]
                          ELSE fileExists
         /\ locked' = GuardDrop(locked, lkey[t], kind)
         /\ lexit' = [lexit EXCEPT ![t] = kind]
    /\ lpc' = [lpc EXCEPT ![t] = "idle"]
    /\ lraw' = [lraw EXCEPT ![t] = NoPath]
    /\ lkey' = [lkey EXCEPT ![t] = NoPath]
    /\ ltool' = [ltool EXCEPT ![t] = "none"]

(***************************************************************************)
(* multi_edit (apps/Axiom/src/tools/multiedit.rs)                          *)
(***************************************************************************)
Chars == {"a", "b"}
Strings(n) == UNION {[1..k -> Chars] : k \in 0..n}
\* The old_string and new_string values tried.
OldStrings == {<<>>, <<"a">>, <<"a", "b">>}
NewStrings == {<<>>, <<"b">>}
\* One element of args["edits"]; form tells which key is missing.
WellFormedEdits ==
    [old : OldStrings, new : NewStrings, all : BOOLEAN, form : {"ok"}]
MalformedEdits ==
    [old : {<<>>}, new : {<<>>}, all : {FALSE}, form : {"no_old", "no_new"}]
Edits == WellFormedEdits \cup MalformedEdits
EditLists == UNION {[1..k -> Edits] : k \in 0..MaxEdits}
EditPath == "a.txt"
NoResult == [tag |-> "none", index |-> 0]

\* The pattern occurs in s at the 0-based offset i.
MatchAt(s, p, i) == i + Len(p) <= Len(s) /\ SubSeq(s, i + 1, i + Len(p)) = p

\* str::contains.
Contains(s, p) == \E i \in 0..Len(s) : MatchAt(s, p, i)

\* Offset of the first occurrence at or after from; -1 when there is none.
FindFrom(s, p, from) ==
    IF \E i \in from..Len(s) : MatchAt(s, p, i)
    THEN CHOOSE i \in from..Len(s) :
            MatchAt(s, p, i) /\ \A j \in from..(i - 1) : ~MatchAt(s, p, j)
    ELSE -1

\* str::replacen(old, new, 1): the first occurrence only.
ReplaceFirst(s, p, n) ==
    LET i == FindFrom(s, p, 0)
    IN  IF i = -1 THEN s
        ELSE SubSeq(s, 1, i) \o n \o SubSeq(s, i + Len(p) + 1, Len(s))

\* str::replace: every non-overlapping occurrence, left to right; the empty
\* pattern matches before every character and at the end.
RECURSIVE ReplaceFrom(_, _, _, _)
ReplaceFrom(s, p, n, pos) ==
    LET i == FindFrom(s, p, pos)
    IN  IF i = -1 THEN SubSeq(s, pos + 1, Len(s))
        ELSE IF p = <<>>
        THEN IF i = Len(s) THEN n
             ELSE n \o <<s[i + 1]>> \o ReplaceFrom(s, p, n, i + 1)
        ELSE SubSeq(s, pos + 1, i) \o n \o ReplaceFrom(s, p, n, i + Len(p))

ReplaceAll(s, p, n) == ReplaceFrom(s, p, n, 0)

\* Mutant of ApplyEdits: an edit whose old_string is absent is skipped.
RECURSIVE ApplyEditsSkipAbsent(_, _, _)
ApplyEditsSkipAbsent(content, edits, i) ==
    IF i > Len(edits) THEN [tag |-> "ok", index |-> Len(edits), content |-> content]
    ELSE IF edits[i].form # "ok"
    THEN [tag |-> edits[i].form, index |-> i - 1, content |-> content]
    ELSE ApplyEditsSkipAbsent(
            IF edits[i].all THEN ReplaceAll(content, edits[i].old, edits[i].new)
            ELSE ReplaceFirst(content, edits[i].old, edits[i].new), edits, i + 1)

\* The loop over the edits, from the i-th on, on the in-memory content: the
\* first malformed edit or absent old_string ends it with an error that
\* names the edit's 0-based index.
RECURSIVE ApplyEdits(_, _, _)
ApplyEdits(content, edits, i) ==
    IF i > Len(edits) THEN [tag |-> "ok", index |-> Len(edits), content |-> content]
    ELSE IF edits[i].form # "ok"
    THEN [tag |-> edits[i].form, index |-> i - 1, content |-> content]
    ELSE IF ~Contains(content, edits[i].old)
    THEN [tag |-> "not_found", index |-> i - 1, content |-> content]
    ELSE ApplyEdits(
            IF edits[i].all THEN ReplaceAll(content, edits[i].old, edits[i].new)
            ELSE ReplaceFirst(content, edits[i].old, edits[i].new), edits, i + 1)

EditIdle ==
    /\ eFile = <<>>
    /\ eOrig = <<>>
    /\ eEdits = <<>>
    /\ eWrites = <<>>
    /\ eResult = NoResult

\* A call of multi_edit on a.txt, which may be missing, with an edit list.
InitEdit ==
    /\ LockIdle
    /\ fileExists \in {[f \in Files |-> f = "a" /\ x] : x \in BOOLEAN}
    /\ eFile \in (IF fileExists["a"] THEN Strings(MaxLen) ELSE {<<>>})
    /\ eOrig = eFile
    /\ eEdits \in EditLists
    /\ eWrites = <<>>
    /\ eResult = NoResult

\* MultiEditTool::execute: lock, read, apply in memory, write once, unlock.
MultiEditExecute ==
    /\ eResult = NoResult
    /\ AcquireAdmits(locked, CanonicalPath(EditPath, fileExists))
    /\ LET key == CanonicalPath(EditPath, fileExists)
           r == ApplyEdits(eFile, eEdits, 1)
       IN  /\ IF ~fileExists[FileOf[EditPath]]
              THEN /\ eResult' = [tag |-> "read_failed", index |-> 0]
                   /\ UNCHANGED <<eFile, eWrites>>
              ELSE /\ eResult' = [tag |-> r.tag, index |-> r.index]
                   /\ IF r.tag = "ok"
                      THEN /\ eFile' = r.content
                           /\ eWrites' = Append(eWrites, r.content)
                      ELSE UNCHANGED <<eFile, eWrites>>
           /\ locked' = GuardDrop(locked \cup {key}, key,
                                  IF eResult'.tag = "ok" THEN "ok" ELSE "error")
    /\ UNCHANGED <<fileExists, lpc, lraw, lkey, ltool, lexit, eOrig, eEdits>>

\* The arguments of an edit_file call; form tells which key is missing.
EditFileArgs ==
    [old : OldStrings, new : NewStrings, form : {"ok"}]
      \cup [old : {<<>>}, new : {<<>>}, form : {"no_old", "no_new"}]

NoEditFileArgs == [old |-> <<>>, new |-> <<>>, form |-> "none"]

\* a.txt, which may be missing, before a call of edit_file.
InitEditFile ==
    /\ LockIdle
    /\ fileExists \in {[f \in Files |-> f = "a" /\ x] : x \in BOOLEAN}
    /\ eFile \in (IF fileExists["a"] THEN Strings(MaxLen) ELSE {<<>>})
    /\ eOrig = eFile
    /\ eEdits = <<>>
    /\ eWrites = <<>>
    /\ eResult = NoResult

\* EditFileTool::execute: the arguments are read, then lock, read, check
\* that old_string occurs, replace, write, unlock.
EditFileExecute ==
    /\ eResult = NoResult
    /\ \E args \in EditFileArgs :
         /\ efArgs' = args
         /\ IF args.form # "ok"
            THEN /\ eResult' = [tag |-> args.form, index |-> 0]
                 /\ UNCHANGED <<eFile, eWrites, locked>>
            ELSE
            /\ AcquireAdmits(locked, CanonicalPath(EditPath, fileExists))
            /\ LET key == CanonicalPath(EditPath, fileExists)
                   new_content == ReplaceAll(eFile, args.old, args.new)
               IN  /\ IF ~fileExists[FileOf[EditPath]]
                      THEN /\ eResult' = [tag |-> "read_failed", index |-> 0]
                           /\ UNCHANGED <<eFile, eWrites>>
                      ELSE IF ~Contains(eFile, args.old)
                      THEN /\ eResult' = [tag |-> "not_found", index |-> 0]
                           /\ UNCHANGED <<eFile, eWrites>>
                      ELSE /\ eResult' = [tag |-> "ok", index |-> 0]
                           /\ eFile' = new_content
                           /\ eWrites' = Append(eWrites, new_content)
                   /\ locked' = GuardDrop(locked \cup {key}, key,
                                  IF eResult'.tag = "ok" THEN "ok" ELSE "error")
    /\ UNCHANGED <<fileExists, lpc, lraw, lkey, ltool, lexit, eOrig, eEdits>>

(***************************************************************************)
(* The LSP client (apps/Axiom/src/tools/lsp.rs)                            *)
(***************************************************************************)
LspIds == 1..MaxLspId
LspCmds == {"diagnostics", "definition", "references"}

\* The messages the server may write: responses (a result or an error) to
\* requests it was sent, requests of its own under any id
\* (client/registerCapability, window/workDoneProgress/create, ...: an id and
\* a method, neither result nor error), and notifications (id 0: no id).
LspMessages ==
    {[kind |-> k, id |-> i] :
        k \in {"result", "error"},
        i \in {x \in LspIds : \E n \in DOMAIN lspOut : lspOut[n] = x}}
      \cup {[kind |-> "server_request", id |-> i] : i \in LspIds}
      \cup {[kind |-> "notification", id |-> 0]}

LspNoRet == [tag |-> "none", from |-> "none", id |-> 0]

\* The session does not exist yet (LSP_SESSION is empty).
InitLsp ==
    /\ lspChild = "none" /\ lspReader = "none"
    /\ lsp_request_id = 0 /\ lspInitialized = FALSE
    /\ responses = [i \in LspIds |-> "none"]
    /\ lspOut = <<>>
    /\ lspPc = "idle" /\ lspWait = 0 /\ lspRet = LspNoRet

\* A request under the id n again instead of a fresh one.
NextRequestIdReused(n) == IF n = 0 THEN 1 ELSE n

\* session.request_id += 1; let id = session.request_id.
NextRequestId(n) == n + 1

\* A write to the server's stdin gets through while the server runs.
LspWritable == lspChild' = "running"

\* send_request up to its wait loop, with out the messages written so far in
\* this step: the id is taken, then the write succeeds or the call returns
\* the write error.
LspSendRequest(out) ==
    /\ lsp_request_id < MaxLspId
    /\ lsp_request_id' = NextRequestId(lsp_request_id)
    /\ IF LspWritable
       THEN /\ lspOut' = Append(out, lsp_request_id')
            /\ lspWait' = lsp_request_id'
            /\ lspRet' = lspRet
       ELSE /\ lspOut' = out
            /\ lspWait' = 0
            /\ lspRet' = [tag |-> "err_write", from |-> "none",
                          id |-> lsp_request_id']
    /\ Len(lspOut') <= MaxLspOut

\* LspTool::execute once the session is initialized: didOpen is sent if the
\* file can be read (its write error is dropped), then the command runs:
\* diagnostics reads the table, definition and references send a request.
LspCommand(out) ==
    \E cmd \in LspCmds, fileOk \in BOOLEAN :
       LET opened == IF fileOk /\ LspWritable THEN Append(out, 0) ELSE out
       IN  IF cmd = "diagnostics"
           THEN /\ lspOut' = opened /\ Len(opened) <= MaxLspOut
                /\ lspPc' = "done"
                /\ lspRet' = [tag |-> "ok", from |-> "none", id |-> 0]
                /\ UNCHANGED <<lsp_request_id, lspWait>>
           ELSE /\ LspSendRequest(opened)
                /\ lspPc' = IF LspWritable THEN "req_wait" ELSE "done"

\* LspTool::execute is called: get_or_init_session spawns the server and the
\* reader thread if there is no session, and begins the handshake if the
\* session is not initialized; else the command runs.
LspExecute ==
    /\ lspPc = "idle"
    /\ UNCHANGED responses
    /\ IF lspChild = "none"
       THEN \E spawnOk \in BOOLEAN :
            IF spawnOk
            THEN /\ lspChild' = "running" /\ lspReader' = "running"
                 /\ LspSendRequest(lspOut)
                 /\ lspPc' = "hs_wait"
                 /\ UNCHANGED lspInitialized
            ELSE /\ lspPc' = "done"
                 /\ lspRet' = [tag |-> "err_spawn", from |-> "none", id |-> 0]
                 /\ UNCHANGED <<lspChild, lspReader, lsp_request_id,
                                lspInitialized, lspOut, lspWait>>
       ELSE /\ UNCHANGED <<lspChild, lspReader, lspInitialized>>
            /\ IF ~lspInitialized
               THEN /\ LspSendRequest(lspOut)
                    /\ lspPc' = IF LspWritable THEN "hs_wait" ELSE "done"
               ELSE LspCommand(lspOut)

\* LspSendRequestReturns with session.initialized set before the handshake
\* is called, so that a failed handshake leaves it set.
LspSendRequestReturnsFlagFirst ==
    /\ lspPc \in {"hs_wait", "req_wait"}
    /\ responses[lspWait] # "none"
    /\ responses' = [responses EXCEPT ![lspWait] = "none"]
    /\ UNCHANGED <<lspChild, lspReader>>
    /\ \E parseOk \in BOOLEAN :
         LET kind == responses[lspWait]
             good == IF kind = "result" THEN parseOk
                     ELSE kind = "server_request" /\ lspPc = "req_wait"
             r == [tag |-> IF good THEN "ok" ELSE "err_lsp", from |-> kind,
                   id |-> lspWait]
         IN  IF lspPc = "req_wait" \/ ~good
             THEN /\ lspPc' = "done" /\ lspRet' = r /\ lspWait' = 0
                  /\ lspInitialized' = TRUE
                  /\ UNCHANGED <<lsp_request_id, lspOut>>
             ELSE IF ~LspWritable
             THEN /\ lspPc' = "done" /\ lspWait' = 0
                  /\ lspRet' = [tag |-> "err_write", from |-> "none", id |-> 0]
                  /\ UNCHANGED <<lsp_request_id, lspInitialized, lspOut>>
             ELSE /\ lspInitialized' = TRUE
                  /\ LspCommand(Append(lspOut, 0))

\* The wait loop of send_request finds an entry under its id: the entry is
\* removed and becomes the outcome of the request. An entry with neither
\* error nor result is decoded from null, which the handshake's
\* InitializeResult refuses and the commands' Option accepts as None. After
\* the handshake the initialized notification is sent and the command runs.
LspSendRequestReturns ==
    /\ lspPc \in {"hs_wait", "req_wait"}
    /\ responses[lspWait] # "none"
    /\ responses' = [responses EXCEPT ![lspWait] = "none"]
    /\ UNCHANGED <<lspChild, lspReader>>
    /\ \E parseOk \in BOOLEAN :
         LET kind == responses[lspWait]
             good == IF kind = "result" THEN parseOk
                     ELSE kind = "server_request" /\ lspPc = "req_wait"
             r == [tag |-> IF good THEN "ok" ELSE "err_lsp", from |-> kind,
                   id |-> lspWait]
         IN  IF lspPc = "req_wait" \/ ~good
             THEN /\ lspPc' = "done" /\ lspRet' = r /\ lspWait' = 0
                  /\ UNCHANGED <<lsp_request_id, lspInitialized, lspOut>>
             ELSE IF ~LspWritable
             THEN /\ lspPc' = "done" /\ lspWait' = 0
                  /\ lspRet' = [tag |-> "err_write", from |-> "none", id |-> 0]
                  /\ UNCHANGED <<lsp_request_id, lspInitialized, lspOut>>
             ELSE /\ lspInitialized' = TRUE
                  /\ LspCommand(Append(lspOut, 0))

\* The caller has read the result of the tool call.
LspAck ==
    /\ lspPc = "done"
    /\ lspPc' = "idle" /\ lspRet' = LspNoRet
    /\ UNCHANGED <<lspChild, lspReader, lsp_request_id, lspInitialized,
                   responses, lspOut, lspWait>>

\* The reader thread reads one well-formed message: whatever has an id is put
\* in the response table under that id; a message without an id is a
\* notification (diagnostics are stored apart from the responses).
LspReaderDispatch ==
    /\ lspReader = "running" /\ lspChild = "running"
    /\ \E m \in LspMessages :
         responses' = IF m.id = 0 THEN responses
                      ELSE [responses EXCEPT ![m.id] = m.kind]
    /\ UNCHANGED <<lspChild, lspReader, lsp_request_id, lspInitialized, lspOut,
                   lspPc, lspWait, lspRet>>

\* read_message at the end of the stream: read_line returns Ok(0), the header
\* loop ends with no Content-Length, read_exact of 0 bytes succeeds, and the
\* empty body is returned as a message; it is not JSON, so nothing is
\* dispatched and the loop goes on reading.
LspReaderEof ==
    /\ lspReader = "running" /\ lspChild = "exited"
    /\ lspReader' = "spinning"
    /\ UNCHANGED <<lspChild, lsp_request_id, lspInitialized, responses, lspOut,
                   lspPc, lspWait, lspRet>>

\* read_message fails (an io error, a Content-Length that is no number, a
\* frame cut short, a body that is not UTF-8): the loop breaks.
LspReaderError ==
    /\ lspReader = "running"
    /\ lspReader' = "exited"
    /\ UNCHANGED <<lspChild, lsp_request_id, lspInitialized, responses, lspOut,
                   lspPc, lspWait, lspRet>>

\* The language server exits; its end of both pipes closes.
LspServerExit ==
    /\ lspChild = "running"
    /\ lspChild' = "exited"
    /\ UNCHANGED <<lspReader, lsp_request_id, lspInitialized, responses, lspOut,
                   lspPc, lspWait, lspRet>>

(***************************************************************************)
(* The BRP client (crates/bevy_bridge_core/src/client.rs)                  *)
(***************************************************************************)
\* Three tasks call send_rpc: two on the client k1 made by BrpClient::new,
\* one on k2, a clone of k1.
BrpTasks == {"r1", "r2", "r3"}
BrpClientOf(t) == IF t = "r3" THEN "k2" ELSE "k1"

\* A clone with a counter of its own, copied from the original.
CellOfOwn(client) == client

\* The counter a client draws from: request_id is an Arc<AtomicU64>, and the
\* derived Clone clones the Arc, so every clone points at the one counter.
CellOf(client) == "shared"

\* BrpClient::new: AtomicU64::new(1); no call is under way.
InitBrp ==
    /\ brpCell = [k \in {"shared", "k1", "k2"} |-> 1]
    /\ brpPc = [t \in BrpTasks |-> "idle"]
    /\ brpId = [t \in BrpTasks |-> 0]
    /\ brpRet = [t \in BrpTasks |-> "none"]
    /\ brpLog = <<>>

\* send_rpc begins: fetch_add(1) returns the id and bumps the counter in one
\* atomic step; the request is built and posted.
BrpSendRpc(t) ==
    LET k == CellOf(BrpClientOf(t))
    IN  /\ brpPc[t] = "idle"
        /\ brpCell[k] <= MaxBrpId
        /\ brpId' = [brpId EXCEPT ![t] = brpCell[k]]
        /\ brpCell' = [brpCell EXCEPT ![k] = brpCell[k] + 1]
        /\ brpLog' = Append(brpLog, brpCell[k])
        /\ brpPc' = [brpPc EXCEPT ![t] = "sent"]
        /\ UNCHANGED brpRet

\* The post ends: a network error, a non-success status, a response with
\* another id, an RPC error or a result; send_rpc returns.
BrpSendRpcReturns(t) ==
    /\ brpPc[t] = "sent"
    /\ \E o \in {"network_error", "http_error", "id_mismatch", "rpc_error",
                 "result"} :
         brpRet' = [brpRet EXCEPT ![t] = o]
    /\ brpPc' = [brpPc EXCEPT ![t] = "idle"]
    /\ brpId' = [brpId EXCEPT ![t] = 0]
    /\ UNCHANGED <<brpCell, brpLog>>

(***************************************************************************)
(* The recent-output ring (crates/debugger_mcp_server/src/main.rs)         *)
(***************************************************************************)
MAX_RECENT_OUTPUT_EVENTS == 1024

\* push_recent_output_event making room by dropping the entry just pushed.
PushRecentDropsNewest(events, seq) ==
    IF Len(events) >= MAX_RECENT_OUTPUT_EVENTS THEN events
    ELSE Append(events, seq)

\* push_recent_output_event: push_back, then pop_front while the ring is
\* over its limit (the output text of an entry is left out).
PushRecent(events, seq) ==
    LET pushed == Append(events, seq)
        over == Len(pushed) - MAX_RECENT_OUTPUT_EVENTS
    IN  IF over > 0 THEN SubSeq(pushed, over + 1, Len(pushed)) ELSE pushed

\* The reader task starts with an empty ring and output_event_seq = 0.
InitRing ==
    /\ recent_output_events = <<>>
    /\ output_event_seq = 0

\* An output event is read: one whose body has an output string takes the
\* next seq and is pushed; any other output event is dropped and takes none.
ReaderOutput ==
    /\ output_event_seq < MaxOutputs
    /\ \E hasOutput \in BOOLEAN :
         IF hasOutput
         THEN /\ recent_output_events' =
                     PushRecent(recent_output_events, output_event_seq)
              /\ output_event_seq' = output_event_seq + 1
         ELSE UNCHANGED ringVars

(***************************************************************************)
(* The retry loop of chat_completion_stream (apps/axiom/src/llm/gemini.rs) *)
(***************************************************************************)
MAX_RETRIES == 3
\* let mut base_delay = 2; // seconds
InitialBaseDelay == 2

\* How one POST can end: no response at all, or a response whose status is
\* 2xx, 429, 5xx, or anything else.
LlmOutcomes == {"network_error", "s2xx", "s429", "s5xx", "other"}

\* No call has been made.
InitLlm ==
    /\ llmPc = "idle"
    /\ retry_count = 0 /\ base_delay = InitialBaseDelay
    /\ llmOutcomes = <<>> /\ llmSleeps = <<>>
    /\ llmRet = "none"

\* The retry test letting one more retry through.
RetryAllowedOnceMore(count) == count <= MAX_RETRIES

\* retry_count < MAX_RETRIES (written retry_count >= MAX_RETRIES on the
\* branches that give up first).
RetryAllowed(count) == count < MAX_RETRIES

\* chat_completion_stream is called: the counters are set and the first POST
\* is sent.
LlmCall ==
    /\ llmPc = "idle"
    /\ llmPc' = "sending"
    /\ retry_count' = 0 /\ base_delay' = InitialBaseDelay
    /\ UNCHANGED <<llmOutcomes, llmSleeps, llmRet>>

\* The POST in flight ends. A 2xx status returns the stream; a 429, a 5xx
\* or a network error sleeps base_delay, doubles it and sends again while
\* retries are left, and returns its error when none is; any other status
\* returns the API error.
LlmAttemptEnds ==
    /\ llmPc = "sending"
    /\ \E o \in LlmOutcomes :
         /\ llmOutcomes' = Append(llmOutcomes, o)
         /\ IF o \in {"network_error", "s429", "s5xx"} /\ RetryAllowed(retry_count)
            THEN /\ llmSleeps' = Append(llmSleeps, base_delay)
                 /\ retry_count' = retry_count + 1
                 /\ base_delay' = base_delay * 2
                 /\ UNCHANGED <<llmPc, llmRet>>
            ELSE /\ llmPc' = "done"
                 /\ llmRet' = CASE o = "s2xx" -> "stream"
                                 [] o = "s429" -> "err_rate_limit"
                                 [] o = "network_error" -> "err_network"
                                 [] OTHER -> "err_api"
                 /\ UNCHANGED <<retry_count, base_delay, llmSleeps>>

(***************************************************************************)
(* SSE codec (apps/axiom/src/llm/gemini.rs 276-356).  A byte of the        *)
(* response body is one of: "p", the six bytes of the prefix "data: ";     *)
(* "a", a byte of the text in choices[0].delta.content; "t", the first     *)
(* entry of choices[0].delta.tool_calls; "D", the payload [DONE]; "NL",    *)
(* the newline.  A payload made of "a" and "t" bytes only is a JSON chunk  *)
(* that deserializes; any other payload but [DONE] is not.                 *)
(***************************************************************************)
SseBytes == {"p", "a", "t", "D", "NL"}

SseChunks == UNION {[1..n -> SseBytes] : n \in 1..MaxSseChunk}

NoEvent == [kind |-> "none", text |-> <<>>]

\* The position of the last newline instead of the first.
SseNewlineAtLast(buf) ==
    IF \E i \in 1..Len(buf) : buf[i] = "NL"
    THEN CHOOSE i \in 1..Len(buf) :
             buf[i] = "NL" /\ \A j \in (i + 1)..Len(buf) : buf[j] # "NL"
    ELSE 0

\* self.buffer.iter().position(|&b| b == b'\n'), counted from 1; 0 is None.
SseNewlineAt(buf) ==
    IF \E i \in 1..Len(buf) : buf[i] = "NL"
    THEN CHOOSE i \in 1..Len(buf) :
             buf[i] = "NL" /\ \A j \in 1..(i - 1) : buf[j] # "NL"
    ELSE 0

\* serde_json::from_str::<StreamChunk>(data).is_ok()
SseJsonOk(data) ==
    data # <<>> /\ \A i \in 1..Len(data) : data[i] \in {"a", "t"}

\* choices[0].delta.content of a chunk that deserialized
SseContent(data) == SelectSeq(data, LAMBDA b : b = "a")

\* What poll_next returns for one line without its newline; NoEvent when
\* it goes on to the next line.
SseParseLine(line) ==
    IF line = <<>> \/ Head(line) # "p" THEN NoEvent
    ELSE LET data == Tail(line) IN
         IF data = <<"D">> THEN [kind |-> "done", text |-> <<>>]
         ELSE IF ~SseJsonOk(data) THEN NoEvent
         ELSE IF SseContent(data) # <<>>
              THEN [kind |-> "text", text |-> SseContent(data)]
         ELSE IF \E i \in 1..Len(data) : data[i] = "t"
              THEN [kind |-> "tool", text |-> <<>>]
         ELSE NoEvent

SseExtendReplacing(buf, chunk) == chunk

\* self.buffer.extend_from_slice(chunk.as_ref())
SseExtend(buf, chunk) == buf \o chunk

InitSse ==
    /\ sseIn = <<>>
    /\ sseBuf = <<>>
    /\ sseOut = <<>>
    /\ sseErrs = 0
    /\ sseEnded = FALSE

\* poll_next, the buffer holding a newline: drain the first line, return
\* its event if it has one.
SseLine ==
    /\ ~sseEnded
    /\ SseNewlineAt(sseBuf) # 0
    /\ LET pos == SseNewlineAt(sseBuf)
           ev == SseParseLine(SubSeq(sseBuf, 1, pos - 1))
       IN /\ sseBuf' = SubSeq(sseBuf, pos + 1, Len(sseBuf))
          /\ sseOut' = IF ev = NoEvent THEN sseOut ELSE Append(sseOut, ev)
    /\ UNCHANGED <<sseIn, sseErrs, sseEnded>>

\* poll_next, no newline in the buffer, the body yields a chunk.
SsePull ==
    /\ ~sseEnded
    /\ SseNewlineAt(sseBuf) = 0
    /\ \E chunk \in SseChunks :
          /\ Len(sseIn) + Len(chunk) <= MaxSseLen
          /\ sseIn' = sseIn \o chunk
          /\ sseBuf' = SseExtend(sseBuf, chunk)
    /\ UNCHANGED <<sseOut, sseErrs, sseEnded>>

\* poll_next, no newline in the buffer, the body reports an error.
SseInnerError ==
    /\ ~sseEnded
    /\ SseNewlineAt(sseBuf) = 0
    /\ sseErrs < MaxSseErrs
    /\ sseErrs' = sseErrs + 1
    /\ sseOut' = Append(sseOut, [kind |-> "error", text |-> <<>>])
    /\ UNCHANGED <<sseIn, sseBuf, sseEnded>>

\* poll_next, no newline in the buffer, the body has ended.
SseInnerEnd ==
    /\ ~sseEnded
    /\ SseNewlineAt(sseBuf) = 0
    /\ sseEnded' = TRUE
    /\ UNCHANGED <<sseIn, sseBuf, sseOut, sseErrs>>

(***************************************************************************)
(* batch_run (apps/Axiom/src/tools/batch.rs 54-133).  An item is named by  *)
(* what happens to it: "ok" and "fails" name a registered tool whose       *)
(* execute returns Ok or Err, "unknown" names no registered tool,          *)
(* "no_tool" has no string under "tool", "no_params" has a tool name but   *)
(* nothing under "parameters".                                             *)
(***************************************************************************)
BatchItemKinds == {"ok", "fails", "unknown", "no_tool", "no_params"}

BatchLists == UNION {[1..n -> BatchItemKinds] : n \in 0..MaxBatch}

BatchNoRet == [ok |-> FALSE, records |-> <<>>, calls |-> <<>>]

RECURSIVE BatchLoop(_, _, _, _)
\* The for loop from item i on, with the records pushed and the tools
\* executed so far: what execute returns and the tools it has executed.
BatchLoop(items, i, results, calls) ==
    IF i > Len(items)
    THEN [ok |-> TRUE, records |-> results, calls |-> calls]
    ELSE IF items[i] \in {"no_tool", "no_params"}
    THEN [ok |-> FALSE, records |-> <<>>, calls |-> calls]
    ELSE IF items[i] = "unknown"
    THEN BatchLoop(items, i + 1, Append(results, "not_found"), calls)
    ELSE BatchLoop(items, i + 1,
                   Append(results, IF items[i] = "ok" THEN "success"
                                                      ELSE "error"),
                   Append(calls, i))

InitBatch ==
    /\ batPc = "idle"
    /\ batItems = <<>>
    /\ batCalls = <<>>
    /\ batRet = [ok |-> FALSE, records |-> <<>>]

\* One call of execute; without an array under "tools" it fails at once.
BatchExecute ==
    /\ batPc = "idle"
    /\ batPc' = "done"
    /\ \E hasTools \in BOOLEAN, items \in BatchLists :
          /\ hasTools \/ items = <<>>
          /\ batItems' = items
          /\ LET r == IF hasTools THEN BatchLoop(items, 1, <<>>, <<>>)
                      ELSE BatchNoRet
             IN /\ batCalls' = r.calls
                /\ batRet' = [ok |-> r.ok, records |-> r.records]

(***************************************************************************)
(* run_command (apps/Axiom/src/tools/shell.rs 63-188).  A path is the      *)
(* sequence of its components from the root; the disk has the directory    *)
(* /a, the entry /a/b and the symbolic link /s to /a, each of which the     *)
(* commands run by the shell may create, replace or remove.                 *)
(***************************************************************************)
ShNodes == {<<>>, <<"a">>, <<"a", "b">>, <<"s">>}

\* The disks: the root is a directory, /a/b exists only in a directory /a,
\* /s is absent or a link.
ShDisks ==
    {fs \in [ShNodes -> {"none", "file", "dir", "link"}] :
        /\ fs[<<>>] = "dir"
        /\ fs[<<"a">>] # "link" /\ fs[<<"a", "b">>] # "link"
        /\ fs[<<"s">>] \in {"none", "link"}
        /\ fs[<<"a">>] # "dir" => fs[<<"a", "b">>] = "none"}

ShLinkTarget == <<"a">>
ShHome == <<"a">>

\* The arguments of cd tried: ~ and absolute and relative paths.
ShTargets ==
    {[home |-> TRUE, abs |-> TRUE, comps |-> <<>>]}
      \cup [home : {FALSE}, abs : {TRUE},
            comps : {<<>>, <<"a">>, <<"a", "b">>, <<"s">>, <<"s", "b">>}]
      \cup [home : {FALSE}, abs : {FALSE},
            comps : {<<"a">>, <<"b">>, <<"s">>, <<"..">>, <<"..", "a">>}]

RECURSIVE ShCanonicalize(_, _, _)
\* Path::canonicalize of the components comps below the resolved path at:
\* every component must exist, a link is followed, .. leaves a directory,
\* and only a directory can have components after it.
ShCanonicalize(fs, at, comps) ==
    IF comps = <<>> THEN [ok |-> TRUE, path |-> at]
    ELSE IF fs[at] # "dir" THEN [ok |-> FALSE, path |-> <<>>]
    ELSE IF Head(comps) = ".."
    THEN ShCanonicalize(fs, IF at = <<>> THEN <<>>
                            ELSE SubSeq(at, 1, Len(at) - 1), Tail(comps))
    ELSE LET next == Append(at, Head(comps)) IN
         IF next \notin ShNodes \/ fs[next] = "none"
         THEN [ok |-> FALSE, path |-> <<>>]
         ELSE IF fs[next] = "link"
         THEN IF fs[ShLinkTarget] = "none" THEN [ok |-> FALSE, path |-> <<>>]
              ELSE ShCanonicalize(fs, ShLinkTarget, Tail(comps))
         ELSE ShCanonicalize(fs, next, Tail(comps))

\* new_path: the home directory, the absolute path, or cwd.join(path).
ShNewPath(cwd, target) ==
    IF target.home THEN ShHome
    ELSE IF target.abs THEN target.comps
    ELSE cwd \o target.comps

ShCdAdmitsAnyEntry(fs, res) == res.ok

\* Ok(path) if path.is_dir()
ShCdAdmits(fs, res) == res.ok /\ fs[res.path] = "dir"

ShNoCall == [kind |-> "none", ok |-> FALSE, before |-> <<>>, full |-> <<>>]

InitShell ==
    /\ shCwd = <<>>
    /\ shEnv = {}
    /\ shFs = [n \in ShNodes |-> IF n = <<>> THEN "dir" ELSE "none"]
    /\ shLast = ShNoCall

\* execute with the command cd or cd <path>; dirs::home_dir() may be None.
ShellCd ==
    \E target \in ShTargets, homeKnown \in BOOLEAN :
        LET full == ShNewPath(shCwd, target)
            res == ShCanonicalize(shFs, <<>>, full)
            ok == (target.home => homeKnown) /\ ShCdAdmits(shFs, res)
        IN  /\ shCwd' = IF ok THEN res.path ELSE shCwd
            /\ shLast' = [kind |-> IF target.home /\ ~homeKnown
                                   THEN "cd_no_home" ELSE "cd",
                          ok |-> ok, before |-> shCwd, full |-> full]
            /\ UNCHANGED <<shEnv, shFs>>

\* execute with any other command: sh -c runs it in cwd and may change the
\* disk; a successful export KEY=VALUE is added to env_vars.
ShellRun ==
    \E disk \in ShDisks, export \in BOOLEAN, success \in BOOLEAN :
        /\ shFs' = disk
        /\ shEnv' = IF export /\ success THEN shEnv \cup {"KEY"} ELSE shEnv
        /\ shLast' = [kind |-> "run", ok |-> success, before |-> shCwd,
                      full |-> <<>>]
        /\ UNCHANGED shCwd

(***************************************************************************)
(* clear (crates/bevy_bridge_core/src/ops/clear.rs 5-69).  An entry of the *)
(* array that world.query answers with is named by what happens to it:     *)
(* "ok" and "despawn_fails" have an entity id, for which the game answers   *)
(* world.despawn_entity with a result or with an error (or not at all);     *)
(* "no_entity" is an object without the key entity.                         *)
(***************************************************************************)
ClearTargets == {"All", "Assets", "Primitives"}

ClearEntries == {"ok", "despawn_fails", "no_entity"}

\* What send_rpc("world.query") may give: an error, a result that is not an
\* array, or an array of entries.
ClearQueryAnswers ==
    [kind : {"rpc_error", "not_array"}, entries : {<<>>}]
      \cup [kind : {"array"},
            entries : UNION {[1..n -> ClearEntries] : n \in 0..MaxEntities}]

RECURSIVE ClearLoop(_, _, _, _)
\* The for loop from entry i on: `let _ = send_rpc(...).await; count += 1`
\* for every entry that has an entity id.
ClearLoop(entries, i, count, sent) ==
    IF i > Len(entries)
    THEN [ok |-> TRUE, removed |-> count, sent |-> sent]
    ELSE IF entries[i] = "no_entity"
    THEN ClearLoop(entries, i + 1, count, sent)
    ELSE ClearLoop(entries, i + 1, count + 1, Append(sent, i))

InitClear ==
    /\ clPc = "idle"
    /\ clQuery = [target |-> "none", kind |-> "none", entries |-> <<>>]
    /\ clDespawns = <<>>
    /\ clRet = [ok |-> FALSE, removed |-> 0]

\* One call of clear.
ClearExecute ==
    /\ clPc = "idle"
    /\ clPc' = "done"
    /\ \E target \in ClearTargets, answer \in ClearQueryAnswers :
          /\ clQuery' = [target |-> target, kind |-> answer.kind,
                         entries |-> answer.entries]
          /\ IF answer.kind # "array"
             THEN /\ clDespawns' = <<>>
                  /\ clRet' = [ok |-> FALSE, removed |-> 0]
             ELSE LET r == ClearLoop(answer.entries, 1, 0, <<>>)
                  IN  /\ clDespawns' = r.sent
                      /\ clRet' = [ok |-> r.ok, removed |-> r.removed]

(***************************************************************************)
(* get_or_init_session (apps/Axiom/src/tools/lsp.rs 48-144) called by       *)
(* several threads: the test of LSP_SESSION, the spawning of the server and *)
(* of the reader thread, LSP_SESSION.set, and the lock of the session.      *)
(***************************************************************************)
LsiThreads == {"t1", "t2", "t3"}

InitLspInit ==
    /\ lsiCell = FALSE
    /\ lsiHolder = "none"
    /\ lsiPc = [t \in LsiThreads |-> "idle"]
    /\ lsiSpawned = 0
    /\ lsiReaders = 0

\* if LSP_SESSION.get().is_none()
LsiCheck(t) ==
    /\ lsiPc[t] = "idle"
    /\ lsiPc' = [lsiPc EXCEPT ![t] = IF lsiCell THEN "lock" ELSE "spawn"]
    /\ UNCHANGED <<lsiCell, lsiHolder, lsiSpawned, lsiReaders>>

\* Command::new("rust-analyzer").spawn() and thread::spawn of the reader;
\* a failed spawn returns the error.
LsiSpawn(t) ==
    /\ lsiPc[t] = "spawn"
    /\ \E spawnOk \in BOOLEAN :
         IF spawnOk
         THEN /\ lsiSpawned' = lsiSpawned + 1
              /\ lsiReaders' = lsiReaders + 1
              /\ lsiPc' = [lsiPc EXCEPT ![t] = "set"]
         ELSE /\ lsiPc' = [lsiPc EXCEPT ![t] = "idle"]
              /\ UNCHANGED <<lsiSpawned, lsiReaders>>
    /\ UNCHANGED <<lsiCell, lsiHolder>>

\* let _ = LSP_SESSION.set(Mutex::new(session)): the session is stored if
\* the cell is empty; else it is dropped, its process and its reader
\* thread left running.
LsiSet(t) ==
    /\ lsiPc[t] = "set"
    /\ lsiCell' = TRUE
    /\ lsiPc' = [lsiPc EXCEPT ![t] = "lock"]
    /\ UNCHANGED <<lsiHolder, lsiSpawned, lsiReaders>>

\* LSP_SESSION.get().unwrap().lock()
LsiLock(t) ==
    /\ lsiPc[t] = "lock" /\ lsiHolder = "none"
    /\ lsiHolder' = t
    /\ lsiPc' = [lsiPc EXCEPT ![t] = "using"]
    /\ UNCHANGED <<lsiCell, lsiSpawned, lsiReaders>>

\* The tool call ends and drops the guard.
LsiRelease(t) ==
    /\ lsiPc[t] = "using" /\ lsiHolder = t
    /\ lsiHolder' = "none"
    /\ lsiPc' = [lsiPc EXCEPT ![t] = "idle"]
    /\ UNCHANGED <<lsiCell, lsiSpawned, lsiReaders>>

(***************************************************************************)
(* The file tools between acquire_lock and the drop of the guard           *)
(* (apps/Axiom/src/tools/mod.rs 105-198, multiedit.rs 60-95): write_file    *)
(* writes; edit_file and multi_edit read, replace in memory and write.      *)
(* The calls and the lock are those of the lock registry above.             *)
(***************************************************************************)
RmwContents == {<<"a">>, <<"b">>}

\* The single replacement of an edit tool's call: old_string, new_string.
RmwEdits == [old : RmwContents, new : RmwContents]

InitRmw ==
    /\ rwContent = [f \in Files |-> <<>>]
    /\ rwRead = [t \in Threads |-> <<>>]

\* The call ends: the guard is dropped and the thread is idle again.
RmwExit(t, kind) ==
    /\ locked' = GuardDrop(locked, lkey[t], kind)
    /\ lexit' = [lexit EXCEPT ![t] = kind]
    /\ lpc' = [lpc EXCEPT ![t] = "idle"]
    /\ lraw' = [lraw EXCEPT ![t] = NoPath]
    /\ lkey' = [lkey EXCEPT ![t] = NoPath]
    /\ ltool' = [ltool EXCEPT ![t] = "none"]
    /\ rwRead' = [rwRead EXCEPT ![t] = <<>>]

\* write_file with the lock held: fs::write(path, content).
RmwWriteFile(t) ==
    /\ lpc[t] = "held" /\ ltool[t] = "write_file"
    /\ \E content \in RmwContents :
         rwContent' = [rwContent EXCEPT ![FileOf[lraw[t]]] = content]
    /\ fileExists' = [fileExists EXCEPT ![FileOf[lraw[t]]] = TRUE]
    /\ RmwExit(t, "ok")

\* edit_file or multi_edit with the lock held: fs::read_to_string(path).
RmwRead(t) ==
    /\ lpc[t] = "held" /\ ltool[t] \in {"edit_file", "multi_edit"}
    /\ IF fileExists[FileOf[lraw[t]]]
       THEN /\ rwRead' = [rwRead EXCEPT ![t] = rwContent[FileOf[lraw[t]]]]
            /\ lpc' = [lpc EXCEPT ![t] = "read"]
            /\ UNCHANGED <<locked, lraw, lkey, ltool, lexit>>
       ELSE RmwExit(t, "error")
    /\ UNCHANGED <<fileExists, rwContent>>

\* The edit tool replaces in the content it has read and writes the result,
\* or fails on an absent old_string.
RmwWrite(t) ==
    /\ lpc[t] = "read"
    /\ \E e \in RmwEdits :
         IF Contains(rwRead[t], e.old)
         THEN /\ rwContent' = [rwContent EXCEPT ![FileOf[lraw[t]]] =
                    IF ltool[t] = "edit_file"
                    THEN ReplaceAll(rwRead[t], e.old, e.new)
                    ELSE ReplaceFirst(rwRead[t], e.old, e.new)]
              /\ RmwExit(t, "ok")
         ELSE /\ UNCHANGED rwContent
              /\ RmwExit(t, "error")
    /\ UNCHANGED fileExists

(***************************************************************************)
(* The Content-Length frame readers: read_dap_message                      *)
(* (crates/debugger_mcp_server/src/main.rs 469-515) with its loop (400-415) *)
(* and read_message (apps/Axiom/src/tools/lsp.rs 258-288) with its thread   *)
(* (80-116).  A stream is a sequence of pieces: "L" is the text             *)
(* `Content-Length: 1`, "h" the text of another header (`X: y`), "n" a line *)
(* end and "x" any other text, which is also a JSON value.  The end of the  *)
(* sequence is the end of the stream.                                       *)
(***************************************************************************)
FrPieces == {"L", "h", "n", "x"}
FrStreams == UNION {[1..k -> FrPieces] : k \in 0..MaxFrameLen}

\* read_line: the position of the first line end, 0 if the stream ends first.
FrLineEnd(s) ==
    IF \E i \in 1..Len(s) : s[i] = "n"
    THEN CHOOSE i \in 1..Len(s) : s[i] = "n" /\ \A j \in 1..(i - 1) : s[j] # "n"
    ELSE 0
FrLine(s) == IF FrLineEnd(s) = 0 THEN s ELSE SubSeq(s, 1, FrLineEnd(s) - 1)
FrAfterLine(s) ==
    IF FrLineEnd(s) = 0 THEN <<>> ELSE SubSeq(s, FrLineEnd(s) + 1, Len(s))

\* serde_json on a body: only "x" pieces make a JSON value.
FrJsonOk(body) == body # <<>> /\ \A i \in 1..Len(body) : body[i] = "x"

\* The header loop of read_dap_message (472-497): content_length is -1 for
\* None.  The result is the error, the length and what is left to read.
RECURSIVE DapHeaders(_, _)
DapHeaders(s, content_length) ==
    IF s = <<>>
    THEN [err |-> "eof", len |-> content_length, rest |-> s]
    ELSE IF FrLine(s) = <<>>
    THEN [err |-> "none", len |-> content_length, rest |-> FrAfterLine(s)]
    ELSE IF FrLine(s)[1] = "L"
    THEN IF Len(FrLine(s)) = 1
         THEN DapHeaders(FrAfterLine(s), 1)
         ELSE [err |-> "invalid", len |-> content_length, rest |-> FrAfterLine(s)]
    ELSE DapHeaders(FrAfterLine(s), content_length)

read_dap_message(s) ==
    LET h == DapHeaders(s, -1) IN
    IF h.err # "none" THEN [ok |-> FALSE, body |-> <<>>, rest |-> h.rest]
    ELSE IF h.len = -1 THEN [ok |-> FALSE, body |-> <<>>, rest |-> h.rest]
    ELSE IF Len(h.rest) < h.len THEN [ok |-> FALSE, body |-> <<>>, rest |-> <<>>]
    ELSE IF ~FrJsonOk(SubSeq(h.rest, 1, h.len))
    THEN [ok |-> FALSE, body |-> <<>>,
          rest |-> SubSeq(h.rest, h.len + 1, Len(h.rest))]
    ELSE [ok |-> TRUE, body |-> SubSeq(h.rest, 1, h.len),
          rest |-> SubSeq(h.rest, h.len + 1, Len(h.rest))]

\* The header loop of read_message (264-281): content_length starts at 0 and
\* the result of read_line is not looked at, so the end of the stream reads
\* as an empty line.
RECURSIVE LspHeaders(_, _)
LspHeaders(s, content_length) ==
    IF FrLine(s) = <<>>
    THEN [err |-> "none", len |-> content_length, rest |-> FrAfterLine(s)]
    ELSE IF FrLine(s)[1] = "L"
    THEN IF Len(FrLine(s)) = 1
         THEN LspHeaders(FrAfterLine(s), 1)
         ELSE [err |-> "invalid", len |-> content_length, rest |-> FrAfterLine(s)]
    ELSE LspHeaders(FrAfterLine(s), content_length)

read_message(s) ==
    LET h == LspHeaders(s, 0) IN
    IF h.err # "none" THEN [ok |-> FALSE, body |-> <<>>, rest |-> h.rest]
    ELSE IF Len(h.rest) < h.len THEN [ok |-> FALSE, body |-> <<>>, rest |-> <<>>]
    ELSE [ok |-> TRUE, body |-> SubSeq(h.rest, 1, h.len),
          rest |-> SubSeq(h.rest, h.len + 1, Len(h.rest))]

InitFrames ==
    /\ frDapIn = <<>> /\ frDapPc = "stopped" /\ frDapLast = "none"
    /\ frLspIn = <<>> /\ frLspPc = "stopped" /\ frLspLast = "none"

\* The two processes are spawned and each reader is started on its child's
\* stdout (main.rs 250-262, lsp.rs 52-81): what the child will write before
\* its stdout closes is the stream.
FramesStart ==
    /\ frDapPc = "stopped" /\ frDapLast = "none"
    /\ frLspPc = "stopped" /\ frLspLast = "none"
    /\ \E s \in FrStreams : frDapIn' = s /\ frLspIn' = s
    /\ frDapPc' = "run" /\ frLspPc' = "run"
    /\ UNCHANGED <<frDapLast, frLspLast>>

\* One turn of the DAP reader task's loop (400-415): an error is logged and
\* the loop is left; a message is dispatched.
DapReaderLoop ==
    /\ frDapPc = "run"
    /\ LET r == read_dap_message(frDapIn) IN
         /\ frDapIn' = r.rest
         /\ frDapLast' = IF r.ok THEN "message" ELSE "error"
         /\ frDapPc' = IF r.ok THEN "run" ELSE "stopped"
    /\ UNCHANGED <<frLspIn, frLspPc, frLspLast>>

\* One turn of the LSP reader thread's loop (82-114): a body that is JSON is
\* dispatched, any other body is passed over, an error leaves the loop.
LspReaderLoop ==
    /\ frLspPc = "run"
    /\ LET r == read_message(frLspIn) IN
         /\ frLspIn' = r.rest
         /\ frLspLast' = IF ~r.ok THEN "error"
                         ELSE IF FrJsonOk(r.body) THEN "message" ELSE "nothing"
         /\ frLspPc' = IF r.ok THEN "run" ELSE "stopped"
    /\ UNCHANGED <<frDapIn, frDapPc, frDapLast>>

(***************************************************************************)
(* The mutexes of a DAP session (crates/debugger_mcp_server/src/main.rs):   *)
(* the reader task (reader_loop, 400-459) and a caller in                   *)
(* send_request_begin (230-273) and await_response (275-315).  Other        *)
(* callers wait on the session manager's mutex, so there is one caller.     *)
(***************************************************************************)
Mutexes == {"audit", "pending", "stopped", "ring", "initialized", "writer"}
ReaderMutexes == Mutexes \ {"writer"}
MxKinds == {"response", "stopped", "output", "initialized", "other", "error"}

\* The mutex the reader takes to dispatch a message of the kind (419-455).
MxTarget(kind) ==
    CASE kind = "response" -> "pending"
      [] kind = "stopped" -> "stopped"
      [] kind = "output" -> "ring"
      [] OTHER -> "initialized"

MxHeldBy(p) == {m \in Mutexes : mxOwner[m] = p}

\* lock().await returns: the mutex was free.
MxAcquire(p, m) ==
    /\ mxOwner[m] = "free"
    /\ mxOwner' = [mxOwner EXCEPT ![m] = p]
    /\ mxOrder' = mxOrder \cup {<<h, m>> : h \in MxHeldBy(p)}

\* The guards of p are dropped, except those of keep.
MxRelease(p, keep) ==
    /\ mxOwner' = [m \in Mutexes |->
                     IF mxOwner[m] = p /\ m \notin keep THEN "free"
                     ELSE mxOwner[m]]
    /\ UNCHANGED mxOrder

\* What send_request_begin still holds after the block that inserts into
\* the pending table (251-254): the guard lives in the block.
PendingScopeKept(held) == held
PendingScope(held) == held \ {"pending"}

InitMx ==
    /\ mxOwner = [m \in Mutexes |-> "free"]
    /\ mxOrder = {}
    /\ mxReaderPc = "read"
    /\ mxMsg = "none"
    /\ mxCallerPc = "idle"
    /\ mxEntry = "none"

\* read_dap_message returns a message or an error (401-403).
MxReaderRead ==
    /\ mxReaderPc = "read"
    /\ \E k \in MxKinds : mxMsg' = k
    /\ mxReaderPc' = "want_audit"
    /\ UNCHANGED <<mxOwner, mxOrder, mxCallerPc, mxEntry>>

\* audit.log (404-412, 417) takes the file mutex.
MxReaderLogLock ==
    /\ mxReaderPc = "want_audit"
    /\ MxAcquire("reader", "audit")
    /\ mxReaderPc' = "in_audit"
    /\ UNCHANGED <<mxMsg, mxCallerPc, mxEntry>>

\* audit.log returns: after an error the loop breaks (413), a message that
\* is no response and no handled event is dropped (457), any other one is
\* dispatched.
MxReaderLogDone ==
    /\ mxReaderPc = "in_audit"
    /\ MxRelease("reader", {})
    /\ mxReaderPc' = IF mxMsg = "error" THEN "done"
                     ELSE IF mxMsg = "other" THEN "read" ELSE "want"
    /\ UNCHANGED <<mxMsg, mxCallerPc, mxEntry>>

\* The reader takes the mutex of the message's kind (422, 433, 443, 450).
MxReaderLock ==
    /\ mxReaderPc = "want"
    /\ MxAcquire("reader", MxTarget(mxMsg))
    /\ mxReaderPc' = "in"
    /\ UNCHANGED <<mxMsg, mxCallerPc, mxEntry>>

\* The reader changes the value and drops the guard; a response whose
\* entry is in the table is removed and sent (423-425).
MxReaderUnlock ==
    /\ mxReaderPc = "in"
    /\ mxEntry' = IF mxMsg = "response" /\ mxEntry = "registered"
                  THEN "sent" ELSE mxEntry
    /\ MxRelease("reader", {})
    /\ mxReaderPc' = "read"
    /\ UNCHANGED <<mxMsg, mxCallerPc>>

\* send_request_begin is called (230-242).
MxBegin ==
    /\ mxCallerPc = "idle"
    /\ mxCallerPc' = "want_audit"
    /\ UNCHANGED <<mxOwner, mxOrder, mxReaderPc, mxMsg, mxEntry>>

\* self.audit.log("outbound") (244) takes the file mutex.
MxCallerLogLock ==
    /\ mxCallerPc = "want_audit"
    /\ MxAcquire("caller", "audit")
    /\ mxCallerPc' = "in_audit"
    /\ UNCHANGED <<mxReaderPc, mxMsg, mxEntry>>

\* The log returns; its error is returned by `?`.
MxCallerLogDone ==
    /\ mxCallerPc = "in_audit"
    /\ MxRelease("caller", {})
    /\ \E logOk \in BOOLEAN :
         mxCallerPc' = IF logOk THEN "want_pending" ELSE "idle"
    /\ UNCHANGED <<mxReaderPc, mxMsg, mxEntry>>

\* self.pending.lock().await of the insert (252), of the removal after a
\* failed write (259, 266) and of the removal after a timeout (289).
MxPendingLock ==
    /\ mxCallerPc \in {"want_pending", "want_pending_w", "want_pending_t"}
    /\ MxAcquire("caller", "pending")
    /\ mxCallerPc' = CASE mxCallerPc = "want_pending" -> "in_pending"
                        [] mxCallerPc = "want_pending_w" -> "in_pending_w"
                        [] OTHER -> "in_pending_t"
    /\ UNCHANGED <<mxReaderPc, mxMsg, mxEntry>>

\* pending.insert(seq, tx) and the end of the block (253-254).
MxInsertDone ==
    /\ mxCallerPc = "in_pending"
    /\ mxEntry' = "registered"
    /\ MxRelease("caller", PendingScope(MxHeldBy("caller")))
    /\ mxCallerPc' = "want_writer"
    /\ UNCHANGED <<mxReaderPc, mxMsg>>

\* self.writer.lock().await (257).
MxWriterLock ==
    /\ mxCallerPc = "want_writer"
    /\ MxAcquire("caller", "writer")
    /\ mxCallerPc' = "in_writer"
    /\ UNCHANGED <<mxReaderPc, mxMsg, mxEntry>>

\* write_all and flush (258-270): on success the writer's guard is dropped
\* and the call returns the receiver; on failure the pending table is
\* locked with the writer still held.
MxWrite ==
    /\ mxCallerPc = "in_writer"
    /\ \E writeOk \in BOOLEAN :
         IF writeOk
         THEN /\ MxRelease("caller", MxHeldBy("caller") \ {"writer"})
              /\ mxCallerPc' = "await"
         ELSE /\ UNCHANGED <<mxOwner, mxOrder>>
              /\ mxCallerPc' = "want_pending_w"
    /\ UNCHANGED <<mxReaderPc, mxMsg, mxEntry>>

\* pending.remove(&seq) and the return of the error (260-263, 290-293).
MxRemoveDone ==
    /\ mxCallerPc \in {"in_pending_w", "in_pending_t"}
    /\ mxEntry' = "none"
    /\ MxRelease("caller", {})
    /\ mxCallerPc' = "idle"
    /\ UNCHANGED <<mxReaderPc, mxMsg>>

\* await_response: the receiver yields the response (282-283).
MxAwaitResponse ==
    /\ mxCallerPc = "await" /\ mxEntry = "sent"
    /\ mxEntry' = "none"
    /\ mxCallerPc' = "idle"
    /\ UNCHANGED <<mxOwner, mxOrder, mxReaderPc, mxMsg>>

\* await_response: the timeout elapses first (288).
MxAwaitTimeout ==
    /\ mxCallerPc = "await"
    /\ mxCallerPc' = "want_pending_t"
    /\ UNCHANGED <<mxOwner, mxOrder, mxReaderPc, mxMsg, mxEntry>>

(***************************************************************************)
(* The evaluate fallback of bevy_debug_snapshot                             *)
(* (crates/debugger_mcp_server/src/main.rs 1489-1521) and                   *)
(* wait_for_output_event_address (612-637), beside the reader task that     *)
(* pushes the output events.  The ring holds the seqs; snAddr tells which   *)
(* outputs parse_hex_address finds an address in.                           *)
(***************************************************************************)
SnNoRet == [from |-> "none", seq |-> 0]

\* The start seq taken as the seq of the newest entry itself.
OutputStartSeqAtTail(events) ==
    IF events = <<>> THEN 0 ELSE events[Len(events)]

\* events.back().map(|(seq, _)| seq.saturating_add(1)).unwrap_or(0)
OutputStartSeq(events) ==
    IF events = <<>> THEN 0 ELSE events[Len(events)] + 1

\* The entries the loop of wait_for_output_event_address does not skip and
\* finds an address in, by position in the ring.
SnHits(events, start_seq) ==
    {i \in 1..Len(events) : events[i] >= start_seq /\ events[i] \in snAddr}

InitSnap ==
    /\ snAddr = {}
    /\ snPc = "idle"
    /\ snStart = 0
    /\ snAtCapture = {}
    /\ snRet = SnNoRet

\* The reader task reads an output event with an output string, holding an
\* address or not (439-447).
SnReaderOutput ==
    /\ output_event_seq < MaxSnapOutputs
    /\ recent_output_events' = PushRecent(recent_output_events, output_event_seq)
    /\ output_event_seq' = output_event_seq + 1
    /\ \E hasAddress \in BOOLEAN :
         snAddr' = IF hasAddress THEN snAddr \cup {output_event_seq} ELSE snAddr
    /\ UNCHANGED <<snPc, snStart, snAtCapture, snRet>>

\* The fallback takes output_start_seq from the ring (1489-1495).
SnCapture ==
    /\ snPc = "idle"
    /\ snStart' = OutputStartSeq(recent_output_events)
    /\ snAtCapture' = {recent_output_events[i] :
                           i \in 1..Len(recent_output_events)}
    /\ snRet' = SnNoRet
    /\ snPc' = "captured"
    /\ UNCHANGED <<ringVars, snAddr>>

\* send_request_begin("evaluate") (1497-1500): the request is written, or
\* the call returns the error.
SnSend ==
    /\ snPc = "captured"
    /\ \E sendOk \in BOOLEAN : snPc' = IF sendOk THEN "awaiting" ELSE "idle"
    /\ UNCHANGED <<ringVars, snAddr, snStart, snAtCapture, snRet>>

\* await_response (1502-1505) and the address in the result (1507-1512): an
\* error returns, a result with an address is the answer, any other result
\* leads to the output events.
SnResponse ==
    /\ snPc = "awaiting"
    /\ \E outcome \in {"error", "address", "no_address"} :
         /\ snPc' = CASE outcome = "error" -> "idle"
                       [] outcome = "address" -> "done"
                       [] OTHER -> "polling"
         /\ snRet' = IF outcome = "address"
                     THEN [from |-> "result", seq |-> 0] ELSE snRet
    /\ UNCHANGED <<ringVars, snAddr, snStart, snAtCapture>>

\* One turn of the loop of wait_for_output_event_address (618-636): the
\* first entry not skipped that holds an address is returned; else the
\* timeout ends the wait with None, or the loop sleeps.
SnPoll ==
    /\ snPc = "polling"
    /\ LET hits == SnHits(recent_output_events, snStart) IN
         IF hits # {}
         THEN /\ snRet' = [from |-> "event",
                           seq |-> recent_output_events[
                                     CHOOSE i \in hits : \A j \in hits : i <= j]]
              /\ snPc' = "done"
         ELSE /\ \E elapsed \in BOOLEAN :
                   snPc' = IF elapsed THEN "done" ELSE "polling"
              /\ UNCHANGED snRet
    /\ UNCHANGED <<ringVars, snAddr, snStart, snAtCapture>>

\* The snapshot call has returned; the next one may come.
SnAck ==
    /\ snPc = "done"
    /\ snPc' = "idle"
    /\ UNCHANGED <<ringVars, snAddr, snStart, snAtCapture, snRet>>

\* What this development adds to the tools, at rest.
ExtIdle == InitLspInit /\ InitRmw /\ InitFrames /\ InitMx /\ InitSnap

\* The agent's tools, at rest.
ToolsIdle ==
    /\ InitSse /\ InitBatch /\ efArgs = NoEditFileArgs /\ InitShell
    /\ InitClear /\ ExtIdle

\* The bridges other than the DAP bridge, at rest.
BridgesIdle == InitLsp /\ InitBrp /\ InitRing /\ InitLlm /\ ToolsIdle

(***************************************************************************)
(* DAP bridge                                                              *)
(***************************************************************************)
Callers == {"c1", "c2"}
NoCaller == "nobody"
\* The seqs a session can reach: a tool call starts only while next_seq is
\* below MaxSeq - 1; set_breakpoints then sends a second request, and the
\* detach that ends the session one more.
Seqs == 1..(MaxSeq + 1)

\* The tools of the server that the model drives. "step" stands for
\* debugger_step_over, _step_in and _step_out, which differ in the command
\* they send; "request" for debugger_variables, _evaluate, _console and a
\* debugger_read_memory whose count is within the limit, which send one
\* request and return its response; "read_memory" for a debugger_read_memory
\* refused for its count.
Ops == {"attach", "detach", "continue", "step", "request", "read_memory",
        "set_breakpoints"}
StepCommands == {"next", "stepIn", "stepOut"}

\* A response frame of the adapter, as far as the bridge reads it.
\* A response frame; stops is, for the response to a continue request, the
\* number of stopped events the reader had dispatched before it.
Responses == [request_seq : Seqs, success : BOOLEAN, stops : 0..MaxStops]
NoResp == [request_seq |-> 0, success |-> FALSE, stops |-> 0]

\* A stopped event: gen is its position among the stopped events of the
\* session, thread whether body.threadId is present.
NoStop == [gen |-> 0, thread |-> FALSE]

NoRet == [tag |-> "none", gen |-> 0, before |-> 0]
Ret(tag) == [tag |-> tag, gen |-> 0, before |-> 0]

EmptyPending == [s \in Seqs |-> 0]
\* A oneshot channel: none (not created, or both halves gone), empty (both
\* halves alive), rx_dropped (receiver gone, sender in the table), full.
ChanNone == [st |-> "none", msg |-> NoResp]
ChanEmpty == [st |-> "empty", msg |-> NoResp]
ChanRxDropped == [st |-> "rx_dropped", msg |-> NoResp]
ChanFull(m) == [st |-> "full", msg |-> m]
EmptyChans == [s \in Seqs |-> ChanNone]

AttachErrBeforeSpawn == {"already_attached", "err_no_adapter_path", "err_spawn"}
AttachErrAfterSpawn == {"err_audit_new", "err_probe", "err_initialize",
                        "err_attach_send", "err_configuration_done", "err_attach"}

InitDap ==
    /\ mgrLock = NoCaller
    /\ mstate = "detached"
    /\ stored = FALSE
    /\ sessAlive = FALSE
    /\ next_seq = 0
    /\ pending = EmptyPending
    /\ chan = EmptyChans
    /\ stopSlot = NoStop
    /\ stopped_seq = 0
    /\ initialized_seen = FALSE
    /\ configuration_done_sent = FALSE
    /\ child = "none"
    /\ reader = "none"
    /\ orphanChildren = 0
    /\ orphanReaders = 0
    /\ pc = [c \in Callers |-> "idle"]
    /\ op = [c \in Callers |-> "none"]
    /\ cur = [c \in Callers |-> 0]
    /\ attSeq = [c \in Callers |-> 0]
    /\ before = [c \in Callers |-> 0]
    /\ aw = [c \in Callers |-> "none"]
    /\ resp = [c \in Callers |-> NoResp]
    /\ ret = [c \in Callers |-> NoRet]
    /\ waitReg = [c \in Callers |-> "none"]

mgrVars == <<mgrLock, mstate, stored>>
sessVars == <<sessAlive, next_seq, pending, chan, stopSlot, stopped_seq,
              initialized_seen, configuration_done_sent, child, reader>>
orphanVars == <<orphanChildren, orphanReaders>>
callVars == <<pc, op, cur, attSeq, before, aw, resp, ret, waitReg>>

\* ---- the tool call's own frame ----------------------------------------

\* The call moves on to newpc; fields not named keep their value.
Goto(c, newpc) == pc' = [pc EXCEPT ![c] = newpc]

\* The tool call returns r: its locals die and the manager guard is dropped.
Return(c, r) ==
    /\ pc' = [pc EXCEPT ![c] = "done"]
    /\ ret' = [ret EXCEPT ![c] = r]
    /\ cur' = [cur EXCEPT ![c] = 0]
    /\ attSeq' = [attSeq EXCEPT ![c] = 0]
    /\ before' = [before EXCEPT ![c] = 0]
    /\ aw' = [aw EXCEPT ![c] = "none"]
    /\ resp' = [resp EXCEPT ![c] = NoResp]
    /\ waitReg' = [waitReg EXCEPT ![c] = "none"]
    /\ mgrLock' = NoCaller

\* A return from a call that is under way.
Finish(c, r) == Return(c, r) /\ UNCHANGED op

\* The MCP client issues a tool call; it queues on the manager mutex.
Invoke(c) ==
    /\ pc[c] = "idle"
    /\ Goto(c, "lock")
    /\ UNCHANGED <<mgrVars, sessVars, orphanVars, op, cur, attSeq, before, aw, resp,
                   ret, waitReg>>

\* The client has read the result of its call.
Ack(c) ==
    /\ pc[c] = "done"
    /\ Goto(c, "idle")
    /\ op' = [op EXCEPT ![c] = "none"]
    /\ ret' = [ret EXCEPT ![c] = NoRet]
    /\ UNCHANGED <<mgrVars, sessVars, orphanVars, cur, attSeq, before, aw, resp, waitReg>>

\* self.session.lock().await is granted to c, whose call is the tool o.
Begin(c, o) ==
    /\ pc[c] = "lock" /\ mgrLock = NoCaller
    /\ op' = [op EXCEPT ![c] = o]

\* ---- DapSession::send_request_begin ------------------------------------

\* Register without taking a fresh seq: the request goes out under the seq of
\* the request before it.
RegisterReusingSeq ==
    /\ next_seq' = IF next_seq = 0 THEN 1 ELSE next_seq
    /\ pending' = [pending EXCEPT ![next_seq'] = next_seq']
    /\ chan' = [chan EXCEPT ![next_seq'] = ChanEmpty]

\* The request with the next seq is logged, registered in the pending table
\* with a fresh oneshot channel, and written to the adapter.
Register ==
    /\ next_seq' = next_seq + 1
    /\ pending' = [pending EXCEPT ![next_seq + 1] = next_seq + 1]
    /\ chan' = [chan EXCEPT ![next_seq + 1] = ChanEmpty]

\* The audit write fails (before the entry is inserted) or the pipe write
\* fails (the entry is inserted and removed again): the seq is used up.
RegisterFailed ==
    /\ next_seq' = next_seq + 1
    /\ UNCHANGED <<pending, chan>>

\* Whether send_request_begin gets through: the audit line is written and
\* the adapter's stdin still has a reader.
BeginSucceeds(auditOk) == auditOk /\ child = "running"

\* The caller starts awaiting the response of the request just registered.
AwaitNew(c) ==
    /\ cur' = [cur EXCEPT ![c] = next_seq + 1]
    /\ aw' = [aw EXCEPT ![c] = "waiting"]
    /\ resp' = [resp EXCEPT ![c] = NoResp]

\* ---- DapSession::shutdown, and the session object leaving scope --------

SessionGone ==
    /\ sessAlive' = FALSE
    /\ next_seq' = 0
    /\ pending' = EmptyPending
    /\ chan' = EmptyChans
    /\ stopSlot' = NoStop
    /\ stopped_seq' = 0
    /\ initialized_seen' = FALSE
    /\ configuration_done_sent' = FALSE
    /\ child' = "none"
    /\ reader' = "none"

\* reader_task.abort(); child.kill(); child.wait(): nothing is left running.
Shutdown ==
    /\ SessionGone
    /\ UNCHANGED orphanVars

\* A DapSession dropped without shutdown: a running child is not killed
\* (no kill_on_drop) and a running reader task is detached, not aborted.
SessionDropped ==
    /\ SessionGone
    /\ orphanChildren' = orphanChildren + (IF child = "running" THEN 1 ELSE 0)
    /\ orphanReaders' = orphanReaders + (IF reader = "running" THEN 1 ELSE 0)

sessRest == <<sessAlive, stopSlot, stopped_seq, initialized_seen,
              configuration_done_sent, child, reader>>

Resolved == {"ok", "fail", "timeout"}
AwaitPcs == {"att_init", "att_cfg", "att_attach", "det_disc", "cont_req",
             "step_req", "req", "sbp_src", "sbp_fn", "sbp_cfg"}

\* ---- DapSession::await_response ----------------------------------------

\* The oneshot receiver yields the response the reader sent.
AwaitDeliver(c) ==
    /\ pc[c] \in AwaitPcs /\ aw[c] = "waiting"
    /\ chan[cur[c]].st = "full"
    /\ resp' = [resp EXCEPT ![c] = chan[cur[c]].msg]
    /\ aw' = [aw EXCEPT ![c] = IF chan[cur[c]].msg.success THEN "ok" ELSE "fail"]
    /\ chan' = [chan EXCEPT ![cur[c]] = ChanNone]
    /\ UNCHANGED <<mgrVars, orphanVars, sessAlive, next_seq, pending, stopSlot,
                   stopped_seq, initialized_seen, configuration_done_sent, child,
                   reader, pc, op, cur, attSeq, before, ret, waitReg>>

\* Mutant of AwaitTimeoutFire: the receiver is awaited without a timer.
AwaitWithoutTimer(c) ==
    /\ pc[c] \in AwaitPcs /\ aw[c] = "waiting"
    /\ chan[cur[c]].st = "closed"
    /\ UNCHANGED vars

\* The timer of timeout(wait_timeout, rx) elapses with nothing received: the
\* receiver is dropped with the timeout future. (The Ok(Err(_)) arm, a sender
\* dropped unsent, cannot be taken: the session holds the pending table, and
\* the reader sends on every sender it removes.)
AwaitTimeoutFire(c) ==
    /\ pc[c] \in AwaitPcs /\ aw[c] = "waiting"
    /\ chan[cur[c]] = ChanEmpty
    /\ chan' = [chan EXCEPT ![cur[c]] = ChanRxDropped]
    /\ aw' = [aw EXCEPT ![c] = "cleanup"]
    /\ UNCHANGED <<mgrVars, orphanVars, sessAlive, next_seq, pending, stopSlot,
                   stopped_seq, initialized_seen, configuration_done_sent, child,
                   reader, pc, op, cur, attSeq, before, resp, ret, waitReg>>

\* Mutant of TimeoutPending: the timeout branch returns without removing.
TimeoutPendingKept(p, s) == p

\* pending.remove(&seq) of the timeout branch.
TimeoutPending(p, s) == [p EXCEPT ![s] = 0]

\* The timeout branch takes the pending lock and removes its entry.
AwaitTimeoutRemove(c) ==
    /\ pc[c] \in AwaitPcs /\ aw[c] = "cleanup"
    /\ pending' = TimeoutPending(pending, cur[c])
    /\ chan' = [chan EXCEPT ![cur[c]] =
                  IF pending'[cur[c]] = 0 THEN ChanNone ELSE chan[cur[c]]]
    /\ aw' = [aw EXCEPT ![c] = "timeout"]
    /\ UNCHANGED <<mgrVars, orphanVars, sessAlive, next_seq, stopSlot,
                   stopped_seq, initialized_seen, configuration_done_sent, child,
                   reader, pc, op, cur, attSeq, before, resp, ret, waitReg>>

\* ---- debugger_attach ---------------------------------------------------

\* Mutant of AttachRefused: the stored session is not looked at.
AttachRefusedNever == FALSE

\* manager.session.is_some(): the attach is refused.
AttachRefused == stored

\* The attach takes the manager lock; it is refused, or fails before or right
\* after spawning the adapter, or builds the session and its reader task.
AttachStart(c) ==
    /\ Begin(c, "attach")
    /\ \/ /\ AttachRefused
          /\ Return(c, Ret("already_attached"))
          /\ UNCHANGED <<mstate, stored, sessVars, orphanVars>>
       \/ /\ ~AttachRefused
          /\ \E tag \in {"err_no_adapter_path", "err_spawn"} : Return(c, Ret(tag))
          /\ UNCHANGED <<mstate, stored, sessVars, orphanVars>>
       \/ \* AuditLogger::new fails: `?` returns with the child spawned
          /\ ~AttachRefused
          /\ orphanChildren < MaxOrphans
          /\ orphanChildren' = orphanChildren + 1
          /\ Return(c, Ret("err_audit_new"))
          /\ UNCHANGED <<mstate, stored, sessVars, orphanReaders>>
       \/ /\ ~AttachRefused
          /\ sessAlive' = TRUE
          /\ next_seq' = 0
          /\ pending' = EmptyPending
          /\ chan' = EmptyChans
          /\ stopSlot' = NoStop
          /\ stopped_seq' = 0
          /\ initialized_seen' = FALSE
          /\ configuration_done_sent' = FALSE
          /\ child' = "running"
          /\ reader' = "running"
          /\ mgrLock' = c
          /\ Goto(c, "att_probe")
          /\ UNCHANGED <<mstate, stored, orphanVars, cur, attSeq, before, aw,
                         resp, ret, waitReg>>

\* probe_adapter_startup, then send_request("initialize") begins.
AttachProbe(c) ==
    /\ pc[c] = "att_probe"
    /\ \E probeOk \in BOOLEAN, auditOk \in BOOLEAN :
         IF ~(probeOk /\ child = "running")
         THEN /\ Shutdown
              /\ Finish(c, Ret("err_probe"))
              /\ UNCHANGED <<mstate, stored>>
         ELSE IF BeginSucceeds(auditOk)
         THEN /\ Register
              /\ AwaitNew(c)
              /\ Goto(c, "att_init")
              /\ UNCHANGED <<mgrVars, orphanVars, sessRest, op, attSeq, before, ret,
                             waitReg>>
         ELSE /\ Shutdown
              /\ Finish(c, Ret("err_initialize"))
              /\ UNCHANGED <<mstate, stored>>

\* The initialize response is in (or failed); send_request_begin("attach").
AttachInitDone(c) ==
    /\ pc[c] = "att_init" /\ aw[c] \in Resolved
    /\ \E auditOk \in BOOLEAN :
         IF aw[c] # "ok"
         THEN /\ Shutdown
              /\ Finish(c, Ret("err_initialize"))
              /\ UNCHANGED <<mstate, stored>>
         ELSE IF BeginSucceeds(auditOk)
         THEN /\ Register
              /\ attSeq' = [attSeq EXCEPT ![c] = next_seq + 1]
              /\ cur' = [cur EXCEPT ![c] = 0]
              /\ aw' = [aw EXCEPT ![c] = "none"]
              /\ resp' = [resp EXCEPT ![c] = NoResp]
              /\ Goto(c, "att_winit_check")
              /\ UNCHANGED <<mgrVars, orphanVars, sessRest, op, before, ret, waitReg>>
         ELSE /\ Shutdown
              /\ Finish(c, Ret("err_attach_send"))
              /\ UNCHANGED <<mstate, stored>>

\* ensure_configuration_done of the attach: the flag is still false, so
\* send_request("configurationDone") begins.
AttachCfgBegin(c) ==
    \E auditOk \in BOOLEAN :
         IF BeginSucceeds(auditOk)
         THEN /\ Register
              /\ AwaitNew(c)
              /\ Goto(c, "att_cfg")
              /\ waitReg' = [waitReg EXCEPT ![c] = "none"]
              /\ UNCHANGED <<mgrVars, orphanVars, sessRest, op, attSeq, before, ret>>
         ELSE /\ Shutdown
              /\ Finish(c, Ret("err_configuration_done"))
              /\ UNCHANGED <<mstate, stored>>

\* wait_for_initialized_event: the first look at initialized_seen.
AttachWaitInitCheck(c) ==
    /\ pc[c] = "att_winit_check"
    /\ IF initialized_seen
       THEN AttachCfgBegin(c)
       ELSE /\ Goto(c, "att_winit_reg")
            /\ UNCHANGED <<mgrVars, sessVars, orphanVars, op, cur, attSeq, before,
                           aw, resp, ret, waitReg>>

\* wait_for_initialized_event: initialized_notify.notified() is created.
AttachWaitInitRegister(c) ==
    /\ pc[c] = "att_winit_reg"
    /\ waitReg' = [waitReg EXCEPT ![c] = "registered"]
    /\ Goto(c, "att_winit_wait")
    /\ UNCHANGED <<mgrVars, sessVars, orphanVars, op, cur, attSeq, before, aw,
                   resp, ret>>

\* AttachWaitInitEnd giving the attach up when the event has not arrived.
AttachWaitInitEndNeedsEvent(c) ==
    /\ pc[c] = "att_winit_wait"
    /\ IF initialized_seen
       THEN AttachCfgBegin(c)
       ELSE /\ Shutdown
            /\ Finish(c, Ret("err_attach"))
            /\ UNCHANGED <<mstate, stored>>

\* wait_for_initialized_event ends, notified or timed out; the attach goes
\* on to configurationDone either way.
AttachWaitInitEnd(c) ==
    /\ pc[c] = "att_winit_wait"
    /\ AttachCfgBegin(c)

\* AttachCfgDone leaving the flag as it is after the successful response.
AttachCfgDoneFlagKept(c) ==
    /\ pc[c] = "att_cfg" /\ aw[c] \in Resolved
    /\ IF aw[c] = "ok"
       THEN /\ cur' = [cur EXCEPT ![c] = attSeq[c]]
            /\ aw' = [aw EXCEPT ![c] = "waiting"]
            /\ resp' = [resp EXCEPT ![c] = NoResp]
            /\ Goto(c, "att_attach")
            /\ UNCHANGED <<mgrVars, orphanVars, sessAlive, next_seq, pending, chan,
                           stopSlot, stopped_seq, initialized_seen, child, reader,
                           op, attSeq, before, ret, waitReg,
                           configuration_done_sent>>
       ELSE /\ Shutdown
            /\ Finish(c, Ret("err_configuration_done"))
            /\ UNCHANGED <<mstate, stored>>

\* The configurationDone response is in (or failed); the attach response is
\* awaited next.
AttachCfgDone(c) ==
    /\ pc[c] = "att_cfg" /\ aw[c] \in Resolved
    /\ IF aw[c] = "ok"
       THEN /\ configuration_done_sent' = TRUE
            /\ cur' = [cur EXCEPT ![c] = attSeq[c]]
            /\ aw' = [aw EXCEPT ![c] = "waiting"]
            /\ resp' = [resp EXCEPT ![c] = NoResp]
            /\ Goto(c, "att_attach")
            /\ UNCHANGED <<mgrVars, orphanVars, sessAlive, next_seq, pending, chan,
                           stopSlot, stopped_seq, initialized_seen, child, reader,
                           op, attSeq, before, ret, waitReg>>
       ELSE /\ Shutdown
            /\ Finish(c, Ret("err_configuration_done"))
            /\ UNCHANGED <<mstate, stored>>

\* The attach response is in (or failed): the session is stored, or torn down.
AttachDone(c) ==
    /\ pc[c] = "att_attach" /\ aw[c] \in Resolved
    /\ IF aw[c] = "ok"
       THEN /\ mstate' = "attached"
            /\ stored' = TRUE
            /\ Finish(c, Ret("attached"))
            /\ UNCHANGED <<sessVars, orphanVars>>
       ELSE /\ Shutdown
            /\ Finish(c, Ret("err_attach"))
            /\ UNCHANGED <<mstate, stored>>

\* ---- debugger_detach ---------------------------------------------------

\* manager.session.take(): nothing stored is a no-op; else disconnect begins.
DetachStart(c) ==
    /\ Begin(c, "detach")
    /\ IF ~stored
       THEN /\ mstate' = "detached"
            /\ Return(c, Ret("detached_noop"))
            /\ UNCHANGED <<stored, sessVars, orphanVars>>
       ELSE \E auditOk \in BOOLEAN :
            IF BeginSucceeds(auditOk)
            THEN /\ stored' = FALSE
                 /\ Register
                 /\ AwaitNew(c)
                 /\ mgrLock' = c
                 /\ Goto(c, "det_disc")
                 /\ UNCHANGED <<mstate, orphanVars, sessRest, attSeq, before,
                                ret, waitReg>>
            ELSE /\ stored' = FALSE
                 /\ Shutdown
                 /\ mstate' = "detached"
                 /\ Return(c, Ret("err_detach"))

\* Mutant of DetachDone: a failed disconnect returns before the shutdown,
\* and the session taken out of the manager is dropped as it is.
DetachDoneEarlyReturn(c) ==
    /\ pc[c] = "det_disc" /\ aw[c] \in Resolved
    /\ IF aw[c] = "ok" THEN Shutdown ELSE SessionDropped
    /\ mstate' = "detached"
    /\ Finish(c, Ret(IF aw[c] = "ok" THEN "detached" ELSE "err_detach"))
    /\ UNCHANGED stored

\* The disconnect ended, whatever its result: shutdown, state Detached.
DetachDone(c) ==
    /\ pc[c] = "det_disc" /\ aw[c] \in Resolved
    /\ Shutdown
    /\ mstate' = "detached"
    /\ Finish(c, Ret(IF aw[c] = "ok" THEN "detached" ELSE "err_detach"))
    /\ UNCHANGED stored

\* ---- resolve_thread_id -------------------------------------------------

\* The thread id comes from the argument or from the stored stopped event.
ThreadResolves(explicit) == explicit \/ (stopSlot # NoStop /\ stopSlot.thread)

\* ---- debugger_continue -------------------------------------------------

ContinueStart(c) ==
    /\ Begin(c, "continue")
    /\ \E explicit \in BOOLEAN, auditOk \in BOOLEAN :
         IF ~stored
         THEN /\ Return(c, Ret("err_detached"))
              /\ UNCHANGED <<mstate, stored, sessVars, orphanVars>>
         ELSE IF ~ThreadResolves(explicit)
         THEN /\ Return(c, Ret("err_thread_id"))
              /\ UNCHANGED <<mstate, stored, sessVars, orphanVars>>
         ELSE IF next_seq >= MaxSeq - 1
         THEN FALSE
         ELSE IF BeginSucceeds(auditOk)
         THEN /\ Register
              /\ AwaitNew(c)
              /\ mgrLock' = c
              /\ Goto(c, "cont_req")
              /\ UNCHANGED <<mstate, stored, orphanVars, sessRest, attSeq,
                             before, ret, waitReg>>
         ELSE /\ RegisterFailed
              /\ Return(c, Ret("err_request"))
              /\ UNCHANGED <<mstate, stored, orphanVars, sessRest>>

\* ContinueDone clearing the stopped slot however the request ended.
ContinueDoneAlwaysClears(c) ==
    /\ pc[c] = "cont_req" /\ aw[c] \in Resolved
    /\ stopSlot' = NoStop
    /\ Finish(c, Ret(IF aw[c] = "ok" THEN "running" ELSE "err_request"))
    /\ UNCHANGED <<mstate, stored, orphanVars, sessAlive, next_seq, pending,
                   chan, stopped_seq, initialized_seen,
                   configuration_done_sent, child, reader>>

\* After a successful continue response the stopped slot is cleared.
ContinueDone(c) ==
    /\ pc[c] = "cont_req" /\ aw[c] \in Resolved
    /\ IF aw[c] = "ok"
       THEN /\ stopSlot' = NoStop
            /\ Finish(c, Ret("running"))
            /\ UNCHANGED <<mstate, stored, orphanVars, sessAlive, next_seq, pending,
                           chan, stopped_seq, initialized_seen,
                           configuration_done_sent, child, reader>>
       ELSE /\ Finish(c, Ret("err_request"))
            /\ UNCHANGED <<mstate, stored, sessVars, orphanVars>>

\* ---- debugger_step_over / step_in / step_out ---------------------------

\* The thread id is resolved, the stopped generation captured, and the step
\* request (next, stepIn, stepOut) begins.
StepStart(c) ==
    /\ Begin(c, "step")
    /\ \E command \in StepCommands, explicit \in BOOLEAN, auditOk \in BOOLEAN :
         IF ~stored
         THEN /\ Return(c, Ret("err_detached"))
              /\ UNCHANGED <<mstate, stored, sessVars, orphanVars>>
         ELSE IF ~ThreadResolves(explicit)
         THEN /\ Return(c, Ret("err_thread_id"))
              /\ UNCHANGED <<mstate, stored, sessVars, orphanVars>>
         ELSE IF next_seq >= MaxSeq - 1
         THEN FALSE
         ELSE IF BeginSucceeds(auditOk)
         THEN /\ Register
              /\ AwaitNew(c)
              /\ before' = [before EXCEPT ![c] = stopped_seq]
              /\ mgrLock' = c
              /\ Goto(c, "step_req")
              /\ UNCHANGED <<mstate, stored, orphanVars, sessRest, attSeq, ret,
                             waitReg>>
         ELSE /\ RegisterFailed
              /\ Return(c, Ret("err_request"))
              /\ UNCHANGED <<mstate, stored, orphanVars, sessRest>>

\* The step response is in: wait for the next stopped event, or fail.
StepReqDone(c) ==
    /\ pc[c] = "step_req" /\ aw[c] \in Resolved
    /\ IF aw[c] = "ok"
       THEN /\ Goto(c, "step_wait")
            /\ aw' = [aw EXCEPT ![c] = "none"]
            /\ UNCHANGED <<mgrVars, sessVars, orphanVars, op, cur, attSeq, before,
                           resp, ret, waitReg>>
       ELSE /\ Finish(c, Ret("err_request"))
            /\ UNCHANGED <<mstate, stored, sessVars, orphanVars>>

\* Mutant of StepAccepts: the generation is compared with >=.
StepAcceptsStale(seqNow, beforeSeq, slot) == seqNow >= beforeSeq /\ slot # NoStop

\* wait_for_stopped_event_after_seq: the poll accepts the stored event.
StepAccepts(seqNow, beforeSeq, slot) == seqNow > beforeSeq /\ slot # NoStop

\* A poll finds a new stopped event and returns it.
StepWaitReturn(c) ==
    /\ pc[c] = "step_wait"
    /\ StepAccepts(stopped_seq, before[c], stopSlot)
    /\ Finish(c, [tag |-> "stopped", gen |-> stopSlot.gen, before |-> before[c]])
    /\ UNCHANGED <<mstate, stored, sessVars, orphanVars>>

\* A poll finds none and the wait has lasted WAIT_FOR_STOPPED_TIMEOUT.
StepWaitTimeout(c) ==
    /\ pc[c] = "step_wait"
    /\ ~StepAccepts(stopped_seq, before[c], stopSlot)
    /\ Finish(c, [tag |-> "err_step_timeout", gen |-> 0, before |-> before[c]])
    /\ UNCHANGED <<mstate, stored, sessVars, orphanVars>>

\* ---- debugger_variables / evaluate / console ---------------------------

RequestStart(c) ==
    /\ Begin(c, "request")
    /\ \E auditOk \in BOOLEAN :
         IF ~stored
         THEN /\ Return(c, Ret("err_detached"))
              /\ UNCHANGED <<mstate, stored, sessVars, orphanVars>>
         ELSE IF next_seq >= MaxSeq - 1
         THEN FALSE
         ELSE IF BeginSucceeds(auditOk)
         THEN /\ Register
              /\ AwaitNew(c)
              /\ mgrLock' = c
              /\ Goto(c, "req")
              /\ UNCHANGED <<mstate, stored, orphanVars, sessRest, attSeq,
                             before, ret, waitReg>>
         ELSE /\ RegisterFailed
              /\ Return(c, Ret("err_request"))
              /\ UNCHANGED <<mstate, stored, orphanVars, sessRest>>

RequestDone(c) ==
    /\ pc[c] = "req" /\ aw[c] \in Resolved
    /\ Finish(c, Ret(IF aw[c] = "ok" THEN "ok" ELSE "err_request"))
    /\ UNCHANGED <<mstate, stored, sessVars, orphanVars>>

\* ---- debugger_read_memory ----------------------------------------------

READ_MEMORY_MAX_COUNT == 65536

\* The count arguments tried: none, the limit, and one byte over it.
Counts == {0, READ_MEMORY_MAX_COUNT, READ_MEMORY_MAX_COUNT + 1}

\* The count is checked before the manager mutex is asked for: a count over
\* the limit returns at once, whoever holds the mutex. A count within the
\* limit goes on as the other single-request tools do (RequestStart, with
\* RequestDone ending the call).
ReadMemoryStart(c) ==
    \E count \in Counts :
         IF count > READ_MEMORY_MAX_COUNT
         THEN /\ pc[c] = "lock"
              /\ op' = [op EXCEPT ![c] = "read_memory"]
              /\ pc' = [pc EXCEPT ![c] = "done"]
              /\ ret' = [ret EXCEPT ![c] = Ret("err_count")]
              /\ UNCHANGED <<mgrVars, sessVars, orphanVars, cur, attSeq, before,
                             aw, resp, waitReg>>
         ELSE RequestStart(c)

\* ---- debugger_set_breakpoints -------------------------------------------

\* The session is looked up and the setBreakpoints request begins.
SetBreakpointsStart(c) ==
    /\ Begin(c, "set_breakpoints")
    /\ \E auditOk \in BOOLEAN :
         IF ~stored
         THEN /\ Return(c, Ret("err_detached"))
              /\ UNCHANGED <<mstate, stored, sessVars, orphanVars>>
         ELSE IF next_seq >= MaxSeq - 1
         THEN FALSE
         ELSE IF BeginSucceeds(auditOk)
         THEN /\ Register
              /\ AwaitNew(c)
              /\ mgrLock' = c
              /\ Goto(c, "sbp_src")
              /\ UNCHANGED <<mstate, stored, orphanVars, sessRest, attSeq,
                             before, ret, waitReg>>
         ELSE /\ RegisterFailed
              /\ Return(c, Ret("err_request"))
              /\ UNCHANGED <<mstate, stored, orphanVars, sessRest>>

\* A request of the call has resolved. After setBreakpoints comes
\* setFunctionBreakpoints, then ensure_configuration_done (which sends
\* configurationDone only while the flag is false), then the result.
SetBreakpointsNext(c) ==
    /\ pc[c] \in {"sbp_src", "sbp_fn", "sbp_cfg"} /\ aw[c] \in Resolved
    /\ IF aw[c] # "ok"
       THEN /\ Finish(c, Ret("err_request"))
            /\ UNCHANGED <<mstate, stored, sessVars, orphanVars>>
       ELSE IF pc[c] = "sbp_cfg"
       THEN /\ configuration_done_sent' = TRUE
            /\ Finish(c, Ret("ok"))
            /\ UNCHANGED <<mstate, stored, orphanVars, sessAlive, next_seq,
                           pending, chan, stopSlot, stopped_seq,
                           initialized_seen, child, reader>>
       ELSE IF pc[c] = "sbp_fn" /\ configuration_done_sent
       THEN /\ Finish(c, Ret("ok"))
            /\ UNCHANGED <<mstate, stored, sessVars, orphanVars>>
       ELSE \E auditOk \in BOOLEAN :
            IF BeginSucceeds(auditOk)
            THEN /\ Register
                 /\ AwaitNew(c)
                 /\ Goto(c, IF pc[c] = "sbp_src" THEN "sbp_fn" ELSE "sbp_cfg")
                 /\ UNCHANGED <<mgrVars, orphanVars, sessRest, op, attSeq,
                                before, ret, waitReg>>
            ELSE /\ RegisterFailed
                 /\ Finish(c, Ret("err_request"))
                 /\ UNCHANGED <<mstate, stored, orphanVars, sessRest>>

\* ---- reader_loop -------------------------------------------------------

\* Mutant of PendingEntryFor: the response goes to the oldest waiter.
PendingEntryOldest(p, m) ==
    IF \E s \in Seqs : p[s] # 0
    THEN CHOOSE s \in Seqs : p[s] # 0 /\ \A t \in Seqs : p[t] # 0 => s <= t
    ELSE 0

\* pending_map.remove(&request_seq): the key whose sender is taken (0: none).
PendingEntryFor(p, m) == IF p[m.request_seq] # 0 THEN m.request_seq ELSE 0

\* ReaderResponse emptying the pending table instead of removing one entry.
ReaderResponseClearsTable ==
    /\ reader = "running"
    /\ \E s \in 1..next_seq, ok \in BOOLEAN :
         LET m == [request_seq |-> s, success |-> ok, stops |-> 0]
             k == PendingEntryFor(pending, m)
             tx == IF k = 0 THEN 0 ELSE pending[k]
         IN  /\ k # 0
             /\ pending' = EmptyPending
             /\ chan' = [chan EXCEPT ![tx] = IF chan[tx] = ChanEmpty THEN ChanFull(m) ELSE ChanNone]
    /\ UNCHANGED <<mgrVars, orphanVars, callVars, sessAlive, next_seq, stopSlot,
                   stopped_seq, initialized_seen, configuration_done_sent, child,
                   reader>>

\* A response frame is read: its pending entry is removed and the frame sent
\* on the entry's channel (the send fails if the receiver is gone).
ReaderResponse ==
    /\ reader = "running"
    /\ \E s \in 1..next_seq, ok \in BOOLEAN :
         LET m == [request_seq |-> s, success |-> ok,
                  stops |-> IF \E c \in Callers :
                                  op[c] = "continue" /\ cur[c] = s
                            THEN stopped_seq ELSE 0]
             k == PendingEntryFor(pending, m)
             tx == IF k = 0 THEN 0 ELSE pending[k]
         IN  /\ k # 0
             /\ pending' = [pending EXCEPT ![k] = 0]
             /\ chan' = [chan EXCEPT ![tx] = IF chan[tx] = ChanEmpty THEN ChanFull(m) ELSE ChanNone]
    /\ UNCHANGED <<mgrVars, orphanVars, callVars, sessAlive, next_seq, stopSlot,
                   stopped_seq, initialized_seen, configuration_done_sent, child,
                   reader>>

\* ReaderStopped storing the event without counting it.
ReaderStoppedUncounted ==
    /\ reader = "running"
    /\ stopped_seq < MaxStops
    /\ \E hasThread \in BOOLEAN :
         stopSlot' = [gen |-> stopped_seq + 1, thread |-> hasThread]
    /\ UNCHANGED <<mgrVars, orphanVars, callVars, sessAlive, next_seq, pending,
                   chan, stopped_seq, initialized_seen, configuration_done_sent,
                   child, reader>>

\* A stopped event is read: it is stored and the generation bumped.
ReaderStopped ==
    /\ reader = "running"
    /\ stopped_seq < MaxStops
    /\ \E hasThread \in BOOLEAN :
         stopSlot' = [gen |-> stopped_seq + 1, thread |-> hasThread]
    /\ stopped_seq' = stopped_seq + 1
    /\ UNCHANGED <<mgrVars, orphanVars, callVars, sessAlive, next_seq, pending,
                   chan, initialized_seen, configuration_done_sent, child, reader>>

\* The initialized event is read: the flag is set, the waiters notified.
ReaderInitialized ==
    /\ reader = "running"
    /\ ~initialized_seen
    /\ initialized_seen' = TRUE
    /\ waitReg' = [c \in Callers |->
                     IF waitReg[c] = "registered" THEN "notified" ELSE waitReg[c]]
    /\ UNCHANGED <<mgrVars, orphanVars, pc, op, cur, attSeq, before, aw, resp, ret,
                   sessAlive, next_seq, pending, chan, stopSlot, stopped_seq,
                   configuration_done_sent, child, reader>>

\* read_dap_message fails (EOF, no Content-Length, bad JSON): the loop ends.
ReaderFail ==
    /\ reader = "running"
    /\ reader' = "exited"
    /\ UNCHANGED <<mgrVars, orphanVars, callVars, sessAlive, next_seq, pending,
                   chan, stopSlot, stopped_seq, initialized_seen,
                   configuration_done_sent, child>>

\* ---- the adapter process ------------------------------------------------

\* The adapter exits on its own.
AdapterExit ==
    /\ child = "running"
    /\ child' = "exited"
    /\ UNCHANGED <<mgrVars, orphanVars, callVars, sessAlive, next_seq, pending,
                   chan, stopSlot, stopped_seq, initialized_seen,
                   configuration_done_sent, reader>>

\* An adapter left without an owner ends when it finds its stdin closed.
OrphanExit ==
    /\ orphanChildren > 0
    /\ orphanChildren' = orphanChildren - 1
    /\ UNCHANGED <<mgrVars, sessVars, callVars, orphanReaders>>

\* No finished call is waiting to be read by its client.
NoneDone == \A c \in Callers : pc[c] # "done"

\* The file tools are not part of the server.
DapFrame == UNCHANGED <<lockVars, editVars, bridgeVars, toolVars, extVars>>

\* One step of the server. A finished call's result is read by the client
\* before the next step is looked at.
NextDap ==
    \/ \E c \in Callers : Ack(c) /\ DapFrame
    \/ \E c \in Callers : NoneDone /\ Invoke(c) /\ DapFrame
    \/ \E c \in Callers : AwaitDeliver(c) /\ DapFrame
    \/ \E c \in Callers : AwaitTimeoutFire(c) /\ DapFrame
    \/ \E c \in Callers : AwaitTimeoutRemove(c) /\ DapFrame
    \/ \E c \in Callers : NoneDone /\ AttachStart(c) /\ DapFrame
    \/ \E c \in Callers : NoneDone /\ AttachProbe(c) /\ DapFrame
    \/ \E c \in Callers : NoneDone /\ AttachInitDone(c) /\ DapFrame
    \/ \E c \in Callers : NoneDone /\ AttachWaitInitCheck(c) /\ DapFrame
    \/ \E c \in Callers : NoneDone /\ AttachWaitInitRegister(c) /\ DapFrame
    \/ \E c \in Callers : NoneDone /\ AttachWaitInitEnd(c) /\ DapFrame
    \/ \E c \in Callers : NoneDone /\ AttachCfgDone(c) /\ DapFrame
    \/ \E c \in Callers : NoneDone /\ AttachDone(c) /\ DapFrame
    \/ \E c \in Callers : NoneDone /\ DetachStart(c) /\ DapFrame
    \/ \E c \in Callers : NoneDone /\ DetachDone(c) /\ DapFrame
    \/ \E c \in Callers : NoneDone /\ ContinueStart(c) /\ DapFrame
    \/ \E c \in Callers : NoneDone /\ ContinueDone(c) /\ DapFrame
    \/ \E c \in Callers : NoneDone /\ StepStart(c) /\ DapFrame
    \/ \E c \in Callers : NoneDone /\ StepReqDone(c) /\ DapFrame
    \/ \E c \in Callers : NoneDone /\ StepWaitReturn(c) /\ DapFrame
    \/ \E c \in Callers : NoneDone /\ StepWaitTimeout(c) /\ DapFrame
    \/ \E c \in Callers : NoneDone /\ RequestStart(c) /\ DapFrame
    \/ \E c \in Callers : NoneDone /\ RequestDone(c) /\ DapFrame
    \/ \E c \in Callers : NoneDone /\ ReadMemoryStart(c) /\ DapFrame
    \/ \E c \in Callers : NoneDone /\ SetBreakpointsStart(c) /\ DapFrame
    \/ \E c \in Callers : NoneDone /\ SetBreakpointsNext(c) /\ DapFrame
    \/ NoneDone /\ ReaderResponse /\ DapFrame
    \/ NoneDone /\ ReaderStopped /\ DapFrame
    \/ NoneDone /\ ReaderInitialized /\ DapFrame
    \/ NoneDone /\ ReaderFail /\ DapFrame
    \/ NoneDone /\ AdapterExit /\ DapFrame
    \/ NoneDone /\ OrphanExit /\ DapFrame

\* The server starts detached; the file tools stay at rest.
InitSpecDap == InitDap /\ InitLock0 /\ EditIdle /\ BridgesIdle

SpecDap == InitSpecDap /\ [][NextDap]_vars

\* SpecDap with the fairness of the runtime: a ready receiver is polled, an
\* armed timer fires, a timed-out call gets the pending lock, and a finished
\* call's result is read.
SpecDapFair ==
    /\ SpecDap
    /\ \A c \in Callers :
         /\ WF_vars(Ack(c) /\ DapFrame)
         /\ WF_vars(/\ DapFrame
                    /\ (AwaitDeliver(c) \/ AwaitTimeoutFire(c)
                          \/ AwaitTimeoutRemove(c)))

(***************************************************************************)
(* Claims about the DAP bridge                                             *)
(***************************************************************************)

\* C1: whatever the order of the adapter's frames, a response whose
\* request_seq is S reaches only the channel created for request S, only
\* while that channel is empty (so at most once), and the caller that awaits
\* seq S is handed a response with request_seq = S; the attach waiter still
\* gets the attach response when configurationDone was answered first.
C1_ResponseReachesItsWaiter ==
    /\ [](/\ \A s \in Seqs : chan[s].st = "full" => chan[s].msg.request_seq = s
          /\ \A c \in Callers :
               resp[c] # NoResp => /\ resp[c].request_seq = cur[c]
                                   /\ (pc[c] = "att_attach" => cur[c] = attSeq[c]))
    /\ [][\A s \in Seqs :
            (chan'[s].st = "full" /\ chan'[s] # chan[s])
               => /\ chan[s] = ChanEmpty
                  /\ chan'[s].msg.request_seq = s
                  /\ \A t \in Seqs \ {s} : chan'[t] = chan[t]]_vars

\* C1 witness: configurationDone has been answered into its own channel
\* while the older attach request is still pending.
C1_Witness ==
    \E c \in Callers :
       /\ pc[c] = "att_cfg" /\ aw[c] = "waiting"
       /\ chan[cur[c]].st = "full"
       /\ pending[attSeq[c]] # 0
       /\ attSeq[c] < cur[c]

\* A call is still awaiting the response to seq s: it has registered s, has
\* not returned from the wait, and the reader has taken no response for s.
Awaited(s) ==
    /\ chan[s].st \in {"empty", "rx_dropped"}
    /\ \E c \in Callers :
         \/ cur[c] = s /\ aw[c] \in {"waiting", "cleanup"}
         \/ attSeq[c] = s /\ pc[c] \in {"att_winit_check", "att_winit_reg",
                                       "att_winit_wait", "att_cfg"}

C4_StepReturnsOnlyNewStop ==
    \A c \in Callers :
       (pc[c] = "done" /\ op[c] = "step") =>
          /\ ret[c].tag = "stopped" => ret[c].gen > ret[c].before
          /\ (ret[c].tag \in {"stopped", "err_step_timeout"}
                /\ stopped_seq = ret[c].before) => ret[c].tag = "err_step_timeout"

\* C4 witness: a step timed out while an older stopped event is stored.
C4_Witness ==
    \E c \in Callers :
       /\ pc[c] = "done" /\ ret[c].tag = "err_step_timeout"
       /\ stopSlot # NoStop /\ stopSlot.gen = ret[c].before

\* C5: an attach that finds a session stored returns "already attached",
\* spawns nothing and leaves the session as it is; only the holder of the
\* manager lock is ever inside a tool, so racing attaches build one session.
C5_SingleSession ==
    /\ [](/\ \A c \in Callers :
               pc[c] \notin {"idle", "lock", "done"} => mgrLock = c
          /\ sessAlive => (stored \/ mgrLock # NoCaller)
          /\ stored => sessAlive)
    /\ [][\A c \in Callers :
            (pc[c] = "lock" /\ op'[c] = "attach" /\ stored)
               => /\ ret'[c].tag = "already_attached"
                  /\ UNCHANGED <<sessVars, orphanVars, mstate, stored>>]_vars

\* C5 witness: an attach was refused while the other caller's attach, which
\* won the race, has its session stored.
C5_Witness ==
    \E c \in Callers :
       /\ pc[c] = "done" /\ ret[c].tag = "already_attached"
       /\ stored /\ sessAlive /\ mstate = "attached"

\* C6: an attach that fails after the adapter was spawned returns with the
\* child killed, the reader aborted, no session stored and state detached.
C6_AttachErrorTearsDown ==
    [][\A c \in Callers :
         (pc[c] # "done" /\ pc'[c] = "done" /\ ret'[c].tag \in AttachErrAfterSpawn)
            => /\ ~sessAlive' /\ ~stored' /\ mstate' = "detached"
               /\ orphanChildren' = orphanChildren
               /\ orphanReaders' = orphanReaders]_vars

\* C7: a detach ends with the session removed, the adapter killed, the
\* reader aborted and state detached, whatever the disconnect did, so the
\* next attach is not refused; with no session it is a successful no-op.
C7_DetachAlwaysTearsDown ==
    [][\A c \in Callers :
         (pc[c] # "done" /\ pc'[c] = "done" /\ op'[c] = "detach")
            => /\ ~sessAlive' /\ ~stored' /\ mstate' = "detached"
               /\ child' = "none" /\ reader' = "none"
               /\ UNCHANGED orphanVars
               /\ ret'[c].tag \in {"detached", "detached_noop", "err_detach"}
               /\ ((ret'[c].tag = "detached_noop") <=> (pc[c] = "lock" /\ ~stored))]_vars

\* C7 witness: a detach whose disconnect failed has returned, torn down.
C7_Witness ==
    \E c \in Callers :
       /\ pc[c] = "done" /\ op[c] = "detach" /\ ret[c].tag = "err_detach"
       /\ ~sessAlive /\ ~stored

\* C13: within one DAP session the seq counter moves only up and by one, a
\* request that is registered carries the new value of the counter (1 for
\* the first request of a session), and a request that failed at the audit
\* or pipe write has used its seq up all the same.
C13_SeqStrictlyIncreasing ==
    [][/\ (sessAlive /\ sessAlive') => next_seq' \in {next_seq, next_seq + 1}
       /\ (~sessAlive /\ sessAlive') => next_seq' \in {0, 1}
       /\ \A s \in Seqs :
            (chan'[s] = ChanEmpty /\ chan[s] # ChanEmpty) =>
               /\ s = next_seq'
               /\ next_seq' = (IF sessAlive THEN next_seq + 1 ELSE 1)
       /\ \A c \in Callers :
            (cur'[c] # cur[c] /\ cur'[c] # 0) =>
               \A d \in Callers \ {c} : cur'[c] > cur[d]]_vars

\* C13 witness: a request waits under seq 5 in a session whose seq 4 went to
\* a request that is over (answered, failed or timed out).
C13_Witness ==
    \E c \in Callers :
       /\ pc[c] \in AwaitPcs /\ aw[c] = "waiting" /\ cur[c] = 5
       /\ next_seq = 5 /\ chan[4] = ChanNone /\ pending[4] = 0

\* C16: while a session lives its stopped generation changes only by a step
\* to the next value that also stores a stopped event and touches nothing
\* else, and every newly stored stopped event comes with such a step.
C16_StoppedSeqCountsStops ==
    [][(sessAlive /\ sessAlive') =>
         /\ stopped_seq' # stopped_seq =>
               /\ stopped_seq' = stopped_seq + 1
               /\ stopSlot' # NoStop /\ stopSlot'.gen = stopped_seq'
               /\ UNCHANGED <<mgrVars, orphanVars, callVars, next_seq, pending,
                              chan, initialized_seen, configuration_done_sent>>
         /\ (stopSlot' # stopSlot /\ stopSlot' # NoStop) =>
               stopped_seq' = stopped_seq + 1]_vars

\* C16 witness: two stopped events were counted while a set_breakpoints call
\* was waiting for its adapter.
C16_Witness ==
    /\ stopped_seq = 2 /\ stopSlot.gen = 2
    /\ \E c \in Callers : pc[c] = "sbp_fn" /\ aw[c] = "waiting"

\* C18: a continue, step, variables/evaluate/console, read_memory or
\* set_breakpoints call that starts while no session is attached returns the
\* 'requires an attached debugger session' error and leaves every session
\* field as it was.
C18_DetachedOpsRefused ==
    [][\A c \in Callers :
         (/\ pc[c] = "lock" /\ pc'[c] # "lock"
          /\ ~stored /\ ~sessAlive
          /\ op'[c] \in {"continue", "step", "request", "read_memory",
                          "set_breakpoints"})
            => (ret'[c].tag = "err_detached" /\ UNCHANGED sessVars)]_vars

\* C19: a continue call that returns 'running' had a successful response and
\* leaves the stopped slot empty; one that returns anything else leaves the
\* slot as it was, and one that fails to resolve the thread id has sent
\* nothing; while a continue call holds the session nothing but its
\* successful return empties the slot.
C19_ContinueClearsOnlyOnSuccess ==
    [][\A c \in Callers :
         /\ (op'[c] = "continue" /\ pc[c] # "done" /\ pc'[c] = "done") =>
              /\ ret'[c].tag \in {"running", "err_detached", "err_thread_id",
                                   "err_request"}
              /\ ret'[c].tag = "running" =>
                    (pc[c] = "cont_req" /\ aw[c] = "ok" /\ stopSlot' = NoStop)
              /\ ret'[c].tag # "running" => stopSlot' = stopSlot
              /\ ret'[c].tag = "err_thread_id" =>
                    UNCHANGED <<next_seq, pending, chan>>
         /\ (op'[c] = "continue" /\ pc[c] = "lock" /\ pc'[c] = "cont_req") =>
              (next_seq' = next_seq + 1 /\ stopSlot' = stopSlot)
         /\ (pc[c] = "cont_req" /\ stopSlot # NoStop /\ stopSlot' = NoStop) =>
              (ret'[c].tag = "running" /\ aw[c] = "ok")]_vars

\* C19 witness: a continue whose request failed or timed out has returned
\* and the stopped event is still stored.
C19_Witness ==
    \E c \in Callers :
       /\ pc[c] = "done" /\ op[c] = "continue" /\ ret[c].tag = "err_request"
       /\ sessAlive /\ stopSlot # NoStop

(***************************************************************************)
(* Specifications of the file tools                                        *)
(***************************************************************************)
\* The server is not part of the file tools.
LockFrame == UNCHANGED <<dapVars, editVars, bridgeVars, toolVars, extVars>>

NextLock ==
    \/ \E t \in Threads : LockCall(t) /\ LockFrame
    \/ \E t \in Threads : LockAcquire(t) /\ LockFrame
    \/ \E t \in Threads : ToolExit(t) /\ LockFrame

\* The registry starts empty, with any of the files on disk.
InitSpecLock == InitDap /\ InitLock /\ EditIdle /\ BridgesIdle

SpecLock == InitSpecLock /\ [][NextLock]_vars

NextEdit == MultiEditExecute /\ UNCHANGED <<dapVars, bridgeVars, toolVars, extVars>>

\* One multi_edit call is about to run.
InitSpecEdit == InitDap /\ InitEdit /\ BridgesIdle

SpecEdit == InitSpecEdit /\ [][NextEdit]_vars

(***************************************************************************)
(* Claims about the file tools                                             *)
(***************************************************************************)

\* What the file holds after the first i edits of the call have each been
\* applied to the result of the ones before.
RECURSIVE ContentAfter(_)
ContentAfter(i) ==
    IF i = 0 THEN eOrig
    ELSE IF eEdits[i].all
    THEN ReplaceAll(ContentAfter(i - 1), eEdits[i].old, eEdits[i].new)
    ELSE ReplaceFirst(ContentAfter(i - 1), eEdits[i].old, eEdits[i].new)

\* The i-th edit cannot be applied at its turn.
EditFails(i) ==
    \/ eEdits[i].form # "ok"
    \/ ~Contains(ContentAfter(i - 1), eEdits[i].old)

\* C8: multi_edit applies the edits in order, each to the result of the
\* earlier ones; if an edit is malformed or its old_string is absent at its
\* turn, the call fails naming the first such edit, nothing is written and
\* the file is as before the call; otherwise exactly one write happens, of
\* the result of all edits, and the file holds it.
C8_MultiEditAllOrNothing ==
    eResult # NoResult =>
       IF ~fileExists[FileOf[EditPath]] \/ \E i \in 1..Len(eEdits) : EditFails(i)
       THEN /\ eResult.tag # "ok"
            /\ eFile = eOrig
            /\ eWrites = <<>>
            /\ fileExists[FileOf[EditPath]] =>
                  /\ EditFails(eResult.index + 1)
                  /\ \A j \in 1..eResult.index : ~EditFails(j)
       ELSE /\ eResult.tag = "ok"
            /\ eFile = ContentAfter(Len(eEdits))
            /\ eWrites = <<ContentAfter(Len(eEdits))>>

\* C8 witness: the second edit failed on an old_string that the file held
\* before the call and the first edit removed, and nothing was written.
C8_Witness ==
    /\ eResult = [tag |-> "not_found", index |-> 1]
    /\ Contains(eOrig, eEdits[2].old)
    /\ eOrig # ContentAfter(1)
    /\ eFile = eOrig /\ eWrites = <<>>

\* The threads that hold a guard.
Holders == {t \in Threads : lpc[t] = "held"}

\* C9: in every interleaving of acquire_lock calls and guard drops, no two
\* live guards have the same canonical path (the key acquire_lock computes),
\* and the registry holds exactly the keys of the live guards.
C9_OneGuardPerKey ==
    /\ \A t \in Holders, u \in Holders : lkey[t] = lkey[u] => t = u
    /\ locked = {lkey[t] : t \in Holders}

\* C9 witness: one thread holds a key that two others spin on.
C9_Witness ==
    \E t \in Threads :
       /\ lpc[t] = "held"
       /\ \A u \in Threads \ {t} : lpc[u] = "spin" /\ lkey[u] = lkey[t]

\* C10: acquire_lock adds its key, which was absent, and nothing else; the
\* end of the borrowing tool call, by normal return, error return or panic,
\* removes that key and nothing else, so the two together leave the
\* registry as it was and the key can be acquired again.
C10_AcquireThenExitRestores ==
    [][\A t \in Threads :
         /\ (lpc[t] = "spin" /\ lpc'[t] = "held")
               => /\ lkey[t] \notin locked
                  /\ locked' = locked \cup {lkey[t]}
         /\ (lpc[t] = "held" /\ lpc'[t] = "idle")
               => /\ lexit'[t] \in ExitKinds
                  /\ lkey[t] \in locked
                  /\ locked' = locked \ {lkey[t]}]_vars

\* C10 witness: a borrower panicked, a second returned an error, and the
\* registry is empty again.
C10_Witness ==
    /\ locked = {}
    /\ \E t \in Threads, u \in Threads : lexit[t] = "panic" /\ lexit[u] = "error"

(***************************************************************************)
(* Specification of the LSP client                                         *)
(***************************************************************************)
LspFrame ==
    UNCHANGED <<dapVars, lockVars, editVars, brpVars, ringVars, llmVars,
                toolVars, extVars>>

NextLsp ==
    \/ LspExecute /\ LspFrame
    \/ LspSendRequestReturns /\ LspFrame
    \/ LspAck /\ LspFrame
    \/ LspReaderDispatch /\ LspFrame
    \/ LspReaderEof /\ LspFrame
    \/ LspReaderError /\ LspFrame
    \/ LspServerExit /\ LspFrame

\* Every part of the model at rest, before its first call.
InitAtRest == InitDap /\ InitLock0 /\ EditIdle /\ BridgesIdle

SpecLsp == InitAtRest /\ [][NextLsp]_vars

\* C11: what a send_request returns as the outcome of its request is the
\* result or the error of a response carrying the id of that request, never
\* a request of the server's own that carries the same id.
C11_ReturnsOwnResponse ==
    [][(lspRet' # lspRet /\ lspRet'.from # "none") =>
          (lspRet'.id = lspWait /\ lspRet'.from \in {"result", "error"})]_vars

\* C12: once the language server has exited, the reader thread's next move
\* is to end, and a request started from then on returns the write error.
C12_ReaderEndsWithServer ==
    [][/\ (lspChild = "exited" /\ lspReader' # lspReader) =>
             lspReader' = "exited"
       /\ (lspChild = "exited" /\ lsp_request_id' # lsp_request_id) =>
             (lspPc' = "done" /\ lspRet'.tag = "err_write")]_vars

\* C14: the ids of the requests written to the server are 1, 2, 3, ... in
\* the order written, whatever notifications were written between them, and
\* the counter is never behind the last id written.
C14_LspIdsCountRequests ==
    /\ \A i \in DOMAIN lspOut :
          lspOut[i] # 0 =>
             lspOut[i] = 1 + Cardinality({j \in 1..(i - 1) : lspOut[j] # 0})
    /\ \A i \in DOMAIN lspOut : lspOut[i] <= lsp_request_id

\* C14 witness: the initialized and didOpen notifications went out between
\* the requests 1 and 2, and a third request has been written.
C14_Witness ==
    /\ Len(lspOut) = 5
    /\ lspOut[1] = 1 /\ lspOut[2] = 0 /\ lspOut[3] = 0 /\ lspOut[4] = 2
    /\ lspOut[5] = 3

(***************************************************************************)
(* Specification of the BRP client's request ids                           *)
(***************************************************************************)
BrpFrame ==
    UNCHANGED <<dapVars, lockVars, editVars, lspVars, ringVars, llmVars,
                toolVars, extVars>>

NextBrp ==
    \/ \E t \in BrpTasks : BrpSendRpc(t) /\ BrpFrame
    \/ \E t \in BrpTasks : BrpSendRpcReturns(t) /\ BrpFrame

SpecBrp == InitAtRest /\ [][NextBrp]_vars

\* C15: the ids handed out by a client and its clones are 1, 2, 3, ... in
\* the order of the calls, so no two calls, concurrent or not, on the same
\* client or on a clone, get the same id.
C15_BrpIdsDistinct ==
    /\ \A i \in DOMAIN brpLog : brpLog[i] = i
    /\ \A t, u \in BrpTasks :
          (t # u /\ brpPc[t] = "sent" /\ brpPc[u] = "sent") => brpId[t] # brpId[u]

\* C15 witness: three calls are in flight at once, the one on the clone
\* having drawn its id between the two on the original.
C15_Witness ==
    /\ \A t \in BrpTasks : brpPc[t] = "sent"
    /\ brpId["r1"] = 1 /\ brpId["r3"] = 2 /\ brpId["r2"] = 3

(***************************************************************************)
(* Specification of the recent-output ring                                 *)
(***************************************************************************)
NextRing ==
    /\ ReaderOutput
    /\ UNCHANGED <<dapVars, lockVars, editVars, lspVars, brpVars, llmVars,
                   toolVars, extVars>>

SpecRing == InitAtRest /\ [][NextRing]_vars

\* C17: after any number of output events the ring holds no more than 1024
\* entries, and they are the last ones pushed, oldest first, their seqs
\* rising by one from entry to entry up to the seq of the newest event.
C17_RingHoldsNewest ==
    LET n == Len(recent_output_events)
    IN  /\ n <= MAX_RECENT_OUTPUT_EVENTS
        /\ n = IF output_event_seq < MAX_RECENT_OUTPUT_EVENTS
               THEN output_event_seq ELSE MAX_RECENT_OUTPUT_EVENTS
        /\ \A i \in 1..n :
              recent_output_events[i] = output_event_seq - n + (i - 1)

\* C17 witness: the seqs 0..1033 were pushed and the ring holds 10..1033.
C17_Witness ==
    /\ output_event_seq = 1034
    /\ Len(recent_output_events) = 1024
    /\ recent_output_events[1] = 10
    /\ recent_output_events[1024] = 1033

(***************************************************************************)
(* Specification of the chat completion retry loop                         *)
(***************************************************************************)
LlmFrame ==
    UNCHANGED <<dapVars, lockVars, editVars, lspVars, brpVars, ringVars,
                toolVars, extVars>>

NextLlm ==
    \/ LlmCall /\ LlmFrame
    \/ LlmAttemptEnds /\ LlmFrame

SpecLlm == InitAtRest /\ [][NextLlm]_vars

\* C20: whatever the outcomes of the attempts, a call makes at most
\* MAX_RETRIES + 1 = 4 of them; every attempt but the last ended with a
\* network error, a 429 or a 5xx and was followed by a sleep, the sleeps
\* being 2, 4, 8 seconds in this order; the call returns the stream on the
\* first 2xx, fails on the first other status, and fails on a network
\* error, 429 or 5xx only when that was the fourth attempt.
C20_BoundedRetries ==
    LET n == Len(llmOutcomes)
        retryable == {"network_error", "s429", "s5xx"}
    IN  /\ n + (IF llmPc = "sending" THEN 1 ELSE 0) <= MAX_RETRIES + 1
        /\ llmSleeps = SubSeq(<<2, 4, 8>>, 1, Len(llmSleeps))
        /\ Len(llmSleeps) = (IF llmPc = "done" THEN n - 1 ELSE n)
        /\ \A i \in 1..Len(llmSleeps) : llmOutcomes[i] \in retryable
        /\ llmPc = "done" =>
              /\ llmOutcomes[n] = "s2xx" <=> llmRet = "stream"
              /\ llmOutcomes[n] = "other" => llmRet = "err_api"
              /\ llmOutcomes[n] \in retryable => n = MAX_RETRIES + 1

\* C20 witness: a call that met a network error, a 429, a 5xx and a 429
\* again has slept 2, 4 and 8 seconds and given up.
C20_Witness ==
    /\ llmPc = "done" /\ llmRet = "err_rate_limit"
    /\ llmOutcomes = <<"network_error", "s429", "s5xx", "s429">>
    /\ llmSleeps = <<2, 4, 8>>

(***************************************************************************)
(* Specification of the SSE codec                                          *)
(***************************************************************************)
SseFrame ==
    UNCHANGED <<dapVars, lockVars, editVars, bridgeVars, batchVars, efArgs,
                shellVars, clearVars, extVars>>

NextSse ==
    \/ SseLine /\ SseFrame
    \/ SsePull /\ SseFrame
    \/ SseInnerError /\ SseFrame
    \/ SseInnerEnd /\ SseFrame

SpecSse == InitAtRest /\ [][NextSse]_vars

RECURSIVE SseTexts(_)
\* The payloads of the TextChunk events among the items, concatenated.
SseTexts(out) ==
    IF out = <<>> THEN <<>>
    ELSE (IF Head(out).kind = "text" THEN Head(out).text ELSE <<>>)
         \o SseTexts(Tail(out))

RECURSIVE SseStreamContent(_, _)
\* The content of the chunks that deserialize among the newline-terminated
\* lines of a byte stream that begin with the prefix, concatenated in
\* order; line is the part of the current line read so far.
SseStreamContent(bytes, line) ==
    IF bytes = <<>> THEN <<>>
    ELSE IF Head(bytes) # "NL"
         THEN SseStreamContent(Tail(bytes), Append(line, Head(bytes)))
    ELSE (IF line # <<>> /\ Head(line) = "p" /\ SseJsonOk(Tail(line))
          THEN SseContent(Tail(line)) ELSE <<>>)
         \o SseStreamContent(Tail(bytes), <<>>)

\* C21: however the body is cut into chunks, the TextChunk payloads
\* emitted so far, concatenated, are the contents of the chunks that
\* deserialize among the lines drained so far, in order, and once the body
\* has ended they are those of the whole body; lines whose JSON does not
\* deserialize add nothing, and the only errors emitted are the body's own.
C21_TextChunksAreTheContent ==
    /\ SseTexts(sseOut) =
           SseStreamContent(SubSeq(sseIn, 1, Len(sseIn) - Len(sseBuf)), <<>>)
    /\ sseEnded => SseTexts(sseOut) = SseStreamContent(sseIn, <<>>)
    /\ Cardinality({i \in 1..Len(sseOut) : sseOut[i].kind = "error"})
           = sseErrs

\* A body of a chunk that deserializes, longer than one chunk of the body,
\* and of a line that does not deserialize, has ended.
C21_Witness ==
    /\ sseEnded
    /\ sseIn = <<"p", "a", "NL", "p", "p", "NL">>
    /\ SseTexts(sseOut) = <<"a">>

\* C22: no TextChunk and no ToolCallChunk is emitted after Done.
C22_NothingAfterDone ==
    \A i, j \in 1..Len(sseOut) :
        (i < j /\ sseOut[i].kind = "done")
            => sseOut[j].kind \notin {"text", "tool"}

(***************************************************************************)
(* Specification of batch_run                                              *)
(***************************************************************************)
NextBatch ==
    /\ BatchExecute
    /\ UNCHANGED <<dapVars, lockVars, editVars, bridgeVars, sseVars, efArgs,
                   shellVars, clearVars, extVars>>

SpecBatch == InitAtRest /\ [][NextBatch]_vars

\* C23: a call that is given a list of items succeeds and returns one
\* record per item, in the order of the items: success for an item whose
\* tool returned Ok, an error record for an item whose tool failed, whose
\* tool is unknown, or that lacks its tool name or its parameters; and the
\* tool of every well-formed item with a known tool has been executed.
C23_ErrorsArePerItem ==
    (batPc = "done" /\ batItems # <<>>) =>
        /\ batRet.ok
        /\ Len(batRet.records) = Len(batItems)
        /\ \A i \in 1..Len(batItems) :
               (batRet.records[i] = "success") <=> (batItems[i] = "ok")
        /\ batCalls = SelectSeq([i \in 1..Len(batItems) |-> i],
                                LAMBDA i : batItems[i] \in {"ok", "fails"})

(***************************************************************************)
(* Specification of edit_file                                              *)
(***************************************************************************)
NextEditFile ==
    /\ EditFileExecute
    /\ UNCHANGED <<dapVars, bridgeVars, sseVars, batchVars, shellVars,
                   clearVars, extVars>>

InitSpecEditFile == InitDap /\ InitEditFile /\ BridgesIdle

SpecEditFile == InitSpecEditFile /\ [][NextEditFile]_vars

\* C24: a call whose old_string does not occur in the file fails and writes
\* nothing; a call that succeeds writes once, and what it writes is the
\* file with the first occurrence of old_string replaced by new_string and
\* everything else as it was.
C24_FirstOccurrenceOnly ==
    /\ eResult.tag = "not_found" =>
          ~Contains(eOrig, efArgs.old) /\ eWrites = <<>> /\ eFile = eOrig
    /\ (efArgs.form = "ok" /\ fileExists["a"]
          /\ ~Contains(eOrig, efArgs.old)) => eResult.tag = "not_found"
    /\ eResult.tag = "ok" =>
          /\ eFile = ReplaceFirst(eOrig, efArgs.old, efArgs.new)
          /\ eWrites = <<eFile>>

(***************************************************************************)
(* Specification of run_command                                            *)
(***************************************************************************)
ShellFrame ==
    UNCHANGED <<dapVars, lockVars, editVars, bridgeVars, sseVars, batchVars,
                efArgs, clearVars, extVars>>

NextShell ==
    \/ ShellCd /\ ShellFrame
    \/ ShellRun /\ ShellFrame

SpecShell == InitAtRest /\ [][NextShell]_vars

\* C25: after a cd that succeeded cwd is a directory on the disk, reached
\* from the root without links or .. ; a cd succeeds exactly when its
\* target resolves to a directory; after a cd that failed, and after any
\* other command, cwd is what it was before the call.
C25_CwdSetOnlyToDirectories ==
    /\ shCwd \in ShNodes \ {<<"s">>}
    /\ (shLast.kind = "cd" /\ shLast.ok) =>
          /\ shFs[shCwd] = "dir"
          /\ \A n \in 1..Len(shCwd) : shFs[SubSeq(shCwd, 1, n)] = "dir"
          /\ shCwd = ShCanonicalize(shFs, <<>>, shLast.full).path
    /\ (shLast.kind = "cd" /\ ~shLast.ok) =>
          /\ shCwd = shLast.before
          /\ LET res == ShCanonicalize(shFs, <<>>, shLast.full)
             IN  ~res.ok \/ shFs[res.path] # "dir"
    /\ shLast.kind \in {"run", "cd_no_home"} => shCwd = shLast.before

\* A cd from the directory /a to the file /a/b has failed, and cwd is
\* still /a.
C25_Witness ==
    /\ shLast.kind = "cd" /\ ~shLast.ok
    /\ shLast.before = <<"a">>
    /\ shLast.full = <<"a", "b">>
    /\ shFs[<<"a", "b">>] = "file"
    /\ shCwd = <<"a">>

(***************************************************************************)
(* Specification of clear                                                  *)
(***************************************************************************)
NextClear ==
    /\ ClearExecute
    /\ UNCHANGED <<dapVars, lockVars, editVars, bridgeVars, sseVars, batchVars,
                   efArgs, shellVars, extVars>>

SpecClear == InitAtRest /\ [][NextClear]_vars

\* C26: a clear whose query was answered with an array and that returns Ok
\* has sent one despawn for every entity of the array, in order, none of
\* them was answered with an error, and entities_removed is the number of
\* entities removed; a clear one of whose despawns failed returns the error.
C26_DespawnErrorsSurface ==
    (clPc = "done" /\ clQuery.kind = "array") =>
        LET entries == clQuery.entries
            failed == {i \in 1..Len(entries) : entries[i] = "despawn_fails"}
            removed == {i \in 1..Len(entries) : entries[i] = "ok"}
        IN  /\ failed # {} => ~clRet.ok
            /\ clRet.ok =>
                  /\ clRet.removed = Cardinality(removed)
                  /\ clDespawns = SelectSeq([i \in 1..Len(entries) |-> i],
                                     LAMBDA i : entries[i] # "no_entity")

(***************************************************************************)
(* Further properties of the DAP bridge                                    *)
(***************************************************************************)

\* C27: when debugger_continue returns after a successful response and the
\* stopped slot is empty, the reader has dispatched no stopped event since
\* it dispatched that response.
C27_StopAfterResponseKept ==
    [][\A c \in Callers :
          (pc[c] = "cont_req" /\ pc'[c] = "done" /\ ret'[c].tag = "running"
             /\ stopSlot' = NoStop)
          => stopped_seq = resp[c].stops]_vars

\* C28: a wait that has timed out has no pending entry left when it ends;
\* removing it touches no other entry; a response read for a request whose
\* receiver is already dropped takes the entry out and is discarded, no
\* caller receives it, every other entry and channel stays as it was, and
\* the reader keeps running.
C28_LateResponseDiscarded ==
    /\ [](\A c \in Callers : aw[c] = "timeout" => pending[cur[c]] = 0)
    /\ [][/\ \A c \in Callers :
              (aw[c] = "cleanup" /\ aw'[c] = "timeout") =>
                 /\ pending'[cur[c]] = 0
                 /\ \A s \in Seqs \ {cur[c]} : pending'[s] = pending[s]
                 /\ reader' = reader
          /\ \A s \in Seqs :
              (pending[s] # 0 /\ chan[pending[s]] = ChanRxDropped
                 /\ pending'[s] = 0 /\ aw' = aw) =>
                 /\ chan'[pending[s]] = ChanNone
                 /\ \A t \in Seqs \ {s} : pending'[t] = pending[t]
                 /\ \A t \in Seqs \ {pending[s]} : chan'[t] = chan[t]
                 /\ resp' = resp /\ pc' = pc
                 /\ reader' = "running"]_vars

\* C28 witness: the response raced with the timeout: the receiver was
\* dropped, the reader took the entry and discarded the response, and the
\* caller has yet to take the pending lock; the reader still runs.
C28_Witness ==
    \E c \in Callers :
       /\ pc[c] \in AwaitPcs /\ aw[c] = "cleanup"
       /\ pending[cur[c]] = 0 /\ chan[cur[c]] = ChanNone
       /\ reader = "running"

\* C29: in an attach run initialize is the first request of the session,
\* attach the second and configurationDone the third; attach is written
\* only after initialize was answered with success; while the initialized
\* event is waited for, attach is written and not awaited and
\* configurationDone is not yet written; the wait for the event ends in
\* configurationDone being sent, whether the event came or not; the attach
\* response is awaited only after configurationDone was answered with
\* success; and the session is stored only by an attach holding both
\* successful responses.
C29_AttachOrder ==
    /\ [](\A c \in Callers :
            /\ pc[c] = "att_init" =>
                  cur[c] = 1 /\ next_seq = 1 /\ attSeq[c] = 0
            /\ pc[c] \in {"att_winit_check", "att_winit_reg", "att_winit_wait"}
                  => attSeq[c] = 2 /\ next_seq = 2 /\ cur[c] = 0
                     /\ ~configuration_done_sent
            /\ pc[c] = "att_cfg" =>
                  attSeq[c] = 2 /\ cur[c] = 3 /\ next_seq = 3
                  /\ ~configuration_done_sent
            /\ pc[c] = "att_attach" =>
                  attSeq[c] = 2 /\ cur[c] = 2 /\ next_seq = 3
                  /\ configuration_done_sent)
    /\ [][\A c \in Callers :
            /\ (pc[c] = "att_init" /\ pc'[c] # pc[c]) =>
                  IF aw[c] = "ok"
                  THEN pc'[c] = "att_winit_check"
                       \/ ret'[c].tag = "err_attach_send"
                  ELSE ret'[c].tag = "err_initialize" /\ next_seq' = 0
            /\ (pc[c] = "att_winit_wait" /\ pc'[c] # pc[c]) =>
                  \/ pc'[c] = "att_cfg" /\ pending'[3] # 0
                  \/ ret'[c].tag = "err_configuration_done"
            /\ (pc[c] # "att_attach" /\ pc'[c] = "att_attach") =>
                  pc[c] = "att_cfg" /\ aw[c] = "ok"
            /\ (pc[c] = "att_attach" /\ ~stored /\ stored') =>
                  /\ aw[c] = "ok" /\ resp[c].request_seq = attSeq[c]
                  /\ configuration_done_sent
            /\ (~stored /\ stored') =>
                  \E d \in Callers :
                     pc[d] = "att_attach" /\ pc'[d] = "done"]_vars

\* C29 witness: an attach has succeeded and stored its session although
\* the initialized event never arrived.
C29_Witness ==
    /\ stored /\ ~initialized_seen /\ configuration_done_sent
    /\ \E c \in Callers : pc[c] = "done" /\ ret[c].tag = "attached"

(***************************************************************************)
(* The LSP client with its threads scheduled: the thread of the tool call   *)
(* runs when the condition variable's predicate holds, and the reader       *)
(* thread runs when its read returns.                                       *)
(***************************************************************************)
SpecLspFair ==
    /\ InitAtRest
    /\ [][NextLsp]_vars
    /\ WF_vars(LspSendRequestReturns /\ LspFrame)
    /\ WF_vars(LspReaderEof /\ LspFrame)

\* C30: a send_request that waits for its response when the language
\* server has exited returns in the end.
C30_SendRequestReturnsAfterExit ==
    (lspPc \in {"hs_wait", "req_wait"} /\ lspChild = "exited")
        ~> (lspPc \notin {"hs_wait", "req_wait"})

(***************************************************************************)
(* Specification of the creation of the LSP session                        *)
(***************************************************************************)
LspInitFrame ==
    UNCHANGED <<dapVars, lockVars, editVars, bridgeVars, toolVars, rmwVars,
                frameVars, mxVars, snapVars>>

NextLspInit ==
    \/ \E t \in LsiThreads : LsiCheck(t) /\ LspInitFrame
    \/ \E t \in LsiThreads : LsiSpawn(t) /\ LspInitFrame
    \/ \E t \in LsiThreads : LsiSet(t) /\ LspInitFrame
    \/ \E t \in LsiThreads : LsiLock(t) /\ LspInitFrame
    \/ \E t \in LsiThreads : LsiRelease(t) /\ LspInitFrame

SpecLspInit == InitAtRest /\ [][NextLspInit]_vars

\* C31: at most one language server and one reader thread are ever
\* created, and one thread at a time uses the session.
C31_OneServerProcess ==
    /\ lsiSpawned <= 1
    /\ lsiReaders <= 1
    /\ Cardinality({t \in LsiThreads : lsiPc[t] = "using"}) <= 1

(***************************************************************************)
(* Specification of the file tools under the path lock                     *)
(***************************************************************************)
RmwFrame ==
    UNCHANGED <<dapVars, editVars, bridgeVars, toolVars, lsiVars, frameVars,
                mxVars, snapVars>>

NextRmw ==
    \/ \E t \in Threads : LockCall(t) /\ RmwFrame /\ UNCHANGED rmwVars
    \/ \E t \in Threads : LockAcquire(t) /\ RmwFrame /\ UNCHANGED rmwVars
    \/ \E t \in Threads : RmwWriteFile(t) /\ RmwFrame
    \/ \E t \in Threads : RmwRead(t) /\ RmwFrame
    \/ \E t \in Threads : RmwWrite(t) /\ RmwFrame

SpecRmw == InitAtRest /\ [][NextRmw]_vars

\* C32: the read-modify-write sections of calls on the same path run one at
\* a time: while an edit tool is between its read and its write, no other
\* call that names the file by the same path holds the lock.
C32_SectionsOneAtATime ==
    \A t, u \in Threads :
        (/\ lpc[t] = "read"
         /\ lpc[u] \in {"held", "read"}
         /\ lraw[u] = lraw[t]) => u = t

\* C33: two calls that name the same file by different spellings never hold
\* the lock at the same time.
C33_SpellingsShareOneKey ==
    \A t, u \in Holders :
        (FileOf[lraw[t]] = FileOf[lraw[u]] /\ lraw[t] # lraw[u]) => lkey[t] = lkey[u]

(***************************************************************************)
(* Specification of the frame readers: both are given the same stream       *)
(***************************************************************************)
FramesFrame ==
    UNCHANGED <<dapVars, lockVars, editVars, bridgeVars, toolVars, lsiVars,
                rmwVars, mxVars, snapVars>>

NextFrames ==
    \/ FramesStart /\ FramesFrame
    \/ DapReaderLoop /\ FramesFrame
    \/ LspReaderLoop /\ FramesFrame

SpecFrames == InitAtRest /\ [][NextFrames]_vars

\* The position of the empty line that ends the header block, 0 if none.
FrBlank(s) ==
    IF \E i \in 1..Len(s) : s[i] = "n" /\ (i = 1 \/ s[i - 1] = "n")
    THEN CHOOSE i \in 1..Len(s) :
            /\ s[i] = "n" /\ (i = 1 \/ s[i - 1] = "n")
            /\ \A j \in 1..(i - 1) : ~(s[j] = "n" /\ (j = 1 \/ s[j - 1] = "n"))
    ELSE 0

\* The stream ends inside the headers or at a frame boundary.
FrEndsInHeaders(s) == FrBlank(s) = 0

\* The header block is complete and has no Content-Length line.
FrNoContentLength(s) ==
    /\ FrBlank(s) > 0
    /\ \A i \in 1..FrBlank(s) : s[i] = "L" => ~(i = 1 \/ s[i - 1] = "n")

\* The header block declares one byte and no byte follows it.
FrShortBody(s) ==
    /\ FrBlank(s) > 0
    /\ \E i \in 1..FrBlank(s) : s[i] = "L" /\ (i = 1 \/ s[i - 1] = "n")
    /\ \A i \in 1..FrBlank(s) :
          (s[i] = "L" /\ (i = 1 \/ s[i - 1] = "n")) => s[i + 1] = "n"
    /\ Len(s) = FrBlank(s)

FrBadFrame(s) == FrEndsInHeaders(s) \/ FrNoContentLength(s) \/ FrShortBody(s)

\* The DAP half of the statement alone: on a stream whose next frame has
\* no Content-Length, ends in the headers or at the frame boundary, or has
\* too short a body, read_dap_message fails and the reader loop stops.
C34_DapReaderStopsOnBadFrame ==
    [][(frDapPc = "run" /\ frDapLast' # frDapLast /\ FrBadFrame(frDapIn))
          => (frDapLast' = "error" /\ frDapPc' = "stopped")]_vars

\* C34: on a stream whose next frame has no Content-Length, ends in the
\* headers or at the frame boundary, or has too short a body, each of the
\* two readers fails, yields no message, and its loop stops.
C34_ReadersStopOnBadFrame ==
    [][/\ (frDapPc = "run" /\ frDapLast' # frDapLast /\ FrBadFrame(frDapIn))
          => (frDapLast' = "error" /\ frDapPc' = "stopped")
       /\ (frLspPc = "run" /\ frLspLast' # frLspLast /\ FrBadFrame(frLspIn))
          => (frLspLast' = "error" /\ frLspPc' = "stopped")]_vars

(***************************************************************************)
(* Specification of the DAP session's mutexes                               *)
(***************************************************************************)
MxFrame ==
    UNCHANGED <<dapVars, lockVars, editVars, bridgeVars, toolVars, lsiVars,
                rmwVars, frameVars, snapVars>>

NextMx ==
    \/ MxReaderRead /\ MxFrame
    \/ MxReaderLogLock /\ MxFrame
    \/ MxReaderLogDone /\ MxFrame
    \/ MxReaderLock /\ MxFrame
    \/ MxReaderUnlock /\ MxFrame
    \/ MxBegin /\ MxFrame
    \/ MxCallerLogLock /\ MxFrame
    \/ MxCallerLogDone /\ MxFrame
    \/ MxPendingLock /\ MxFrame
    \/ MxInsertDone /\ MxFrame
    \/ MxWriterLock /\ MxFrame
    \/ MxWrite /\ MxFrame
    \/ MxRemoveDone /\ MxFrame
    \/ MxAwaitResponse /\ MxFrame
    \/ MxAwaitTimeout /\ MxFrame

SpecMx == InitAtRest /\ [][NextMx]_vars

\* The mutex a task is waiting for, "-" if it is not in lock().await.
MxWants(p) ==
    IF p = "reader"
    THEN (IF mxReaderPc = "want_audit" THEN "audit"
          ELSE IF mxReaderPc = "want" THEN MxTarget(mxMsg) ELSE "-")
    ELSE (IF mxCallerPc = "want_audit" THEN "audit"
          ELSE IF mxCallerPc \in {"want_pending", "want_pending_w",
                                  "want_pending_t"} THEN "pending"
          ELSE IF mxCallerPc = "want_writer" THEN "writer" ELSE "-")

\* p waits for a mutex whose holder is itself waiting for a mutex that p, or
\* the holder, holds: neither will ever run again.
MxDeadlocked(p) ==
    /\ MxWants(p) # "-"
    /\ mxOwner[MxWants(p)] # "free"
    /\ LET q == mxOwner[MxWants(p)] IN
         \/ q = p
         \/ (MxWants(q) # "-" /\ mxOwner[MxWants(q)] \in {p, q})

\* The pairs <<a, b>> with b acquired, directly or through others, while a
\* was held.
MxOrderClosure ==
    LET step(R) == R \cup {<<z[1][1], z[2][2]>> :
                               z \in {w \in R \X R : w[1][2] = w[2][1]}}
    IN step(step(step(mxOrder)))

\* C35: no interleaving of the reader task and a caller deadlocks: neither
\* task is ever deadlocked, a caller that awaits its response holds none of
\* the mutexes the reader acquires, and no two mutexes are acquired in
\* conflicting orders.
C35_NoDeadlock ==
    /\ \A p \in {"reader", "caller"} : ~MxDeadlocked(p)
    /\ mxCallerPc = "await" => MxHeldBy("caller") \cap ReaderMutexes = {}
    /\ \A a, b \in Mutexes : <<a, b>> \in MxOrderClosure => <<b, a>> \notin MxOrderClosure

\* The caller awaits, a failed write has locked the pending table under the
\* writer before, and the reader holds the pending table to deliver.
C35_Witness ==
    /\ mxCallerPc = "await"
    /\ mxReaderPc = "in" /\ mxMsg = "response" /\ mxEntry = "registered"
    /\ <<"writer", "pending">> \in mxOrder

\* C36: no wake-up is lost between the flag check and the registration for
\* the notification: whenever a caller is in the timed wait of
\* wait_for_initialized_event and the reader has set the flag since the call
\* started, the caller's Notified future has been woken, so the wait ends
\* without the timeout.
C36_NoLostWakeup ==
    \A c \in Callers :
        (pc[c] = "att_winit_wait" /\ initialized_seen) => waitReg[c] = "notified"

\* C37: configurationDone is sent only while the flag is false, and the
\* request either sets the flag on its successful response or ends the
\* attach with its error; the flag is set only on that response; every stored
\* session has the flag set; and debugger_set_breakpoints never sends
\* configurationDone: it returns its result right after
\* setFunctionBreakpoints, reporting configuration_done_sent = false.
C37_ConfigurationDoneOnce ==
    /\ [](stored => configuration_done_sent)
    /\ [](\A c \in Callers : pc[c] # "sbp_cfg")
    /\ [][/\ (~configuration_done_sent /\ configuration_done_sent') =>
               \E c \in Callers :
                  pc[c] = "att_cfg" /\ aw[c] = "ok" /\ resp[c].success
          /\ \A c \in Callers :
               /\ (pc[c] # "att_cfg" /\ pc'[c] = "att_cfg") =>
                     ~configuration_done_sent
               /\ (pc[c] = "att_cfg" /\ pc'[c] # "att_cfg") =>
                     \/ configuration_done_sent' /\ pc'[c] = "att_attach"
                     \/ ret'[c].tag = "err_configuration_done"
               /\ (op[c] = "set_breakpoints" /\ pc[c] # "done"
                   /\ pc'[c] = "done" /\ ret'[c].tag = "ok") =>
                     pc[c] = "sbp_fn" /\ configuration_done_sent]_vars

\* C37 witness: on a stored session debugger_set_breakpoints holds the
\* successful setFunctionBreakpoints response and is about to call
\* ensure_configuration_done.
C37_Witness ==
    /\ stored /\ configuration_done_sent
    /\ \E c \in Callers :
         op[c] = "set_breakpoints" /\ pc[c] = "sbp_fn" /\ aw[c] = "ok"

\* C38: the initialized flag never goes back to false; it becomes true only
\* in the step that holds the result of the initialize request and writes
\* the initialized notification first; while the flag stays false the only
\* message written is an initialize request; and a handshake that ends in
\* an error leaves the flag false.
C38_InitializedOnceAfterHandshake ==
    [][/\ lspInitialized => lspInitialized'
       /\ (~lspInitialized /\ lspInitialized') =>
             /\ lspPc = "hs_wait" /\ responses[lspWait] = "result"
             /\ Len(lspOut') > Len(lspOut)
             /\ SubSeq(lspOut', 1, Len(lspOut) + 1) = Append(lspOut, 0)
       /\ (~lspInitialized' /\ lspOut' # lspOut) =>
             /\ lspOut' = Append(lspOut, lsp_request_id')
             /\ lsp_request_id' = lsp_request_id + 1
             /\ lspPc' = "hs_wait"
       /\ (lspPc = "hs_wait" /\ lspPc' = "done" /\ lspRet'.tag # "ok") =>
             ~lspInitialized']_vars

\* C38 witness: a first handshake failed, the second one succeeded: two
\* initialize requests and then the initialized notification were written,
\* and the flag is set.
C38_Witness ==
    /\ lspInitialized
    /\ Len(lspOut) >= 3
    /\ lspOut[1] = 1 /\ lspOut[2] = 2 /\ lspOut[3] = 0

RECURSIVE SseEventsOf(_, _)
\* The events of a byte stream taken as a whole: one for each
\* newline-terminated line that has one, in order; line is the part of the
\* current line read so far, and an unterminated last line gives nothing.
SseEventsOf(bytes, line) ==
    IF bytes = <<>> THEN <<>>
    ELSE IF Head(bytes) # "NL"
         THEN SseEventsOf(Tail(bytes), Append(line, Head(bytes)))
    ELSE (IF SseParseLine(line) = NoEvent THEN <<>> ELSE <<SseParseLine(line)>>)
         \o SseEventsOf(Tail(bytes), <<>>)

\* The events emitted that are not the transport's own errors.
SseParsed(out) == SelectSeq(out, LAMBDA e : e.kind # "error")

\* C39: however the transport cuts the bytes into chunks, the buffer is the
\* part of the bytes received that is not drained yet, what is drained ends
\* at a line end, the events emitted are those of the drained bytes taken as
\* a whole, and once the buffer holds no newline they are those of all the
\* bytes received, in which an unterminated last line counts for nothing.
C39_EventsDependOnBytesOnly ==
    LET drained == SubSeq(sseIn, 1, Len(sseIn) - Len(sseBuf)) IN
    /\ Len(sseBuf) <= Len(sseIn)
    /\ sseBuf = SubSeq(sseIn, Len(sseIn) - Len(sseBuf) + 1, Len(sseIn))
    /\ drained = <<>> \/ drained[Len(drained)] = "NL"
    /\ SseParsed(sseOut) = SseEventsOf(drained, <<>>)
    /\ SseNewlineAt(sseBuf) = 0 => SseParsed(sseOut) = SseEventsOf(sseIn, <<>>)

\* C39 witness: the body has ended after a line longer than a chunk, an
\* empty line and an unterminated last line; the one event is that of the
\* first line and the last line is still in the buffer.
C39_Witness ==
    /\ sseEnded
    /\ sseIn = <<"p", "a", "NL", "NL", "p", "D">>
    /\ sseOut = <<[kind |-> "text", text |-> <<"a">>]>>
    /\ sseBuf = <<"p", "D">>

(***************************************************************************)
(* Specification of the snapshot's evaluate fallback                       *)
(***************************************************************************)
SnapFrame ==
    UNCHANGED <<dapVars, lockVars, editVars, lspVars, brpVars, llmVars,
                toolVars, lsiVars, rmwVars, frameVars, mxVars>>

NextSnap ==
    \/ SnReaderOutput /\ SnapFrame
    \/ SnCapture /\ SnapFrame
    \/ SnSend /\ SnapFrame
    \/ SnResponse /\ SnapFrame
    \/ SnPoll /\ SnapFrame
    \/ SnAck /\ SnapFrame

SpecSnap == InitAtRest /\ [][NextSnap]_vars

\* C40: an address taken from an output event comes from an entry whose seq
\* is not below start_seq; while a fallback runs, start_seq is above the
\* seq of every entry that was in the ring when it was captured, which is
\* before the evaluate request is sent, and not above the seq of any entry
\* pushed since (0 when the ring was empty); so the address never comes from
\* an entry that was in the ring then.
C40_NoAddressFromBeforeStart ==
    /\ snRet.from = "event" =>
          /\ snRet.seq >= snStart
          /\ snRet.seq \in snAddr
          /\ snRet.seq \notin snAtCapture
    /\ snPc # "idle" =>
          /\ \A q \in snAtCapture : q < snStart
          /\ \A i \in 1..Len(recent_output_events) :
                recent_output_events[i] \notin snAtCapture
                   => recent_output_events[i] >= snStart
          /\ snAtCapture = {} => snStart = 0
          /\ snAtCapture # {} => snStart - 1 \in snAtCapture

\* C40 witness: the ring held an output with an address when start_seq was
\* captured, the evaluate result held none, and the address returned is
\* that of an output event pushed afterwards.
C40_Witness ==
    /\ snPc = "done" /\ snRet.from = "event"
    /\ snAtCapture \cap snAddr # {}
    /\ snRet.seq >= snStart

====
